---------------------------- MODULE Spec2Model ----------------------------
(***************************************************************************)
(* Verification model of the stratum pool core:                            *)
(*   - BlockTemplate            (src/lib/blockTemplate.js, lines 7-106)    *)
(*   - StratumClient            (src/lib/blockTemplate.js, lines 340-570)  *)
(*   - Peer                     (src/src/peer.ts)                          *)
(* Each subsystem has its own specification over the shared variables; the *)
(* variables of the subsystems a specification does not exercise are held  *)
(* at their parked (Idle) values.                                          *)
(*                                                                         *)
(* Conventions: a JS string is a TLA+ string (+ is \o); a Buffer is a      *)
(* sequence of bytes 0..255; null and the empty Buffer are both <<>> where *)
(* the code treats them alike; an exception thrown by a handler is         *)
(* recorded in a "threw" field and ends that handler where it was raised.  *)
(***************************************************************************)
EXTENDS Naturals, Sequences, FiniteSets, TLC

VARIABLES
    \* ---- BlockTemplate
    submits,                \* this.submits: the fingerprints, in push order
    calls,                  \* history: the registerSubmit calls and results
    template,               \* the fields the constructor set, read by
                            \* getJobParams
    jobParams,              \* this.jobParams: <<the array>>, <<>> if undefined
    params,                 \* history: what each getJobParams call returned
    \* ---- Peer
    client,                 \* this.client: state of the current socket
    conn,                   \* history: number of sockets opened so far
    verack,                 \* this.verack
    validConnectionConfig,  \* this.validConnectionConfig
    parser,                 \* the pending readFlowingBytes of this.client
    wire,                   \* bytes the remote node has still to deliver
    scenario,               \* history: what the remote node serialized
    peerLog,                \* history: events emitted from data of this socket
    life,                   \* history: connection-level events, whole run
    \* ---- HandleInv applied to one payload
    invIn,                  \* the inventory (vectors, encoding) and its payload
    invOut,                 \* <<the result of HandleInv on it>>, <<>> before
    \* ---- StratumClient
    banning,                \* options.banning
    authorized,             \* this.authorized
    extraNonce1,            \* this.extraNonce1
    shares,                 \* this.shares
    socket,                 \* options.socket: "open" or "destroyed"
    dataBuffer,             \* dataBuffer of setupSocket
    proxy,                  \* options.tcpProxyProtocol: "off", or "first"
                            \* while the once('data') listener waits, "on"
    received,               \* history: the buffer the last 'data' event
                            \* found and the chunk it brought
    overtaken,              \* history: ids of unanswered requests received
                            \* before a request whose reply is written
    pending,                \* host callbacks not yet invoked, in request order
    op,                     \* history: the handler runs of the last step
    out,                    \* history: what the last step wrote to the socket
    emitted,                \* history: what the last step emitted
    \* ---- StratumServer
    options,                \* this.options of the server
    now,                    \* Date.now(), in milliseconds
    nextPurge,              \* when the setInterval of init() fires next
    bannedIPs,              \* this.bannedIPs: address -> Date.now() of the ban
    stratumClients,         \* this.stratumClients: subscriptionId -> session
    subscriptionCounter,    \* this.subscriptionCounter.count
    bannedAt,               \* history: address -> time of its last ban
    rebroadcastTimeout,     \* this.rebroadcastTimeout: <<when it fires>>,
                            \* <<>> if no timer is armed
    broadcastAt,            \* history: <<time of the last broadcastMiningJobs>>
    did,                    \* history: the last step of the server
    \* ---- BlockTemplate.serializeHeader applied to one input
    headerIn,               \* rpcData and the arguments, hex as digit lists
    headerOut,              \* <<the buffer returned>>, <<>> before the call
    \* ---- BlockTemplate.serializeBlock applied to one input
    blockIn,                \* the template's fields and the arguments
    blockOut                \* <<the buffer returned>>, <<>> before the call

tvars == <<submits, calls, template, jobParams, params>>
pvars == <<client, conn, verack, validConnectionConfig, parser, wire,
           scenario, peerLog, life>>
ivars == <<invIn, invOut>>
cvars == <<banning, authorized, extraNonce1, shares, socket, dataBuffer,
           proxy, received, overtaken,
           pending, op, out, emitted>>
svars == <<options, now, nextPurge, bannedIPs, stratumClients,
           subscriptionCounter, bannedAt, rebroadcastTimeout, broadcastAt,
           did>>
hvars == <<headerIn, headerOut>>
bvars == <<blockIn, blockOut>>
vars == <<tvars, pvars, ivars, cvars, svars, hvars, bvars>>

(***************************************************************************)
(* Generic helpers                                                         *)
(***************************************************************************)
Range(s) == {s[i] : i \in 1..Len(s)}

Drop(s, n) == SubSeq(s, n + 1, Len(s))

Take(s, n) == SubSeq(s, 1, n)

\* Concatenation of a sequence of sequences (split in halves, to keep the
\* evaluation shallow)
RECURSIVE Flatten(_)
Flatten(ss) ==
    IF ss = <<>> THEN <<>>
    ELSE IF Len(ss) = 1 THEN ss[1]
    ELSE Flatten(Take(ss, Len(ss) \div 2)) \o Flatten(Drop(ss, Len(ss) \div 2))

\* All sequences over S of length lo..hi
SeqsOf(S, lo, hi) == UNION {[1..n -> S] : n \in lo..hi}

(***************************************************************************)
(* BlockTemplate.registerSubmit                                            *)
(***************************************************************************)
MaxCalls == 3

\* The strings a caller passes.  extraNonce2, nTime and nonce are taken from
\* the miner's mining.submit params; registerSubmit itself checks no length.
ExtraNonce1s == {"a1", "a2"}
ExtraNonce2s == {"00", "0000"}
NTimes == {"5f", "005f"}
Nonces == {"07"}

\* const submission = extraNonce1 + extraNonce2 + nTime + nonce;
Submission(e1, e2, nTime, nonce) == e1 \o e2 \o nTime \o nonce

\* this.submits.indexOf(submission) === -1
NotIn(submission, list) == submission \notin Range(list)

RegisterSubmit(e1, e2, nTime, nonce) ==
    LET submission == Submission(e1, e2, nTime, nonce)
        fresh == NotIn(submission, submits)
    IN  /\ Len(calls) < MaxCalls
        /\ submits' = IF fresh THEN Append(submits, submission) ELSE submits
        /\ calls' = Append(calls, [e1 |-> e1, e2 |-> e2, nTime |-> nTime,
                                   nonce |-> nonce, ret |-> fresh])
        /\ UNCHANGED <<template, jobParams, params>>
        /\ UNCHANGED <<pvars, ivars, cvars, svars, hvars, bvars>>

TemplateInit ==
    /\ submits = <<>>
    /\ calls = <<>>
    /\ template = <<>>
    /\ jobParams = <<>>
    /\ params = <<>>

TemplateNext ==
    \E e1 \in ExtraNonce1s, e2 \in ExtraNonce2s, nTime \in NTimes,
       nonce \in Nonces : RegisterSubmit(e1, e2, nTime, nonce)

SameTuple(a, b) ==
    /\ a.e1 = b.e1
    /\ a.e2 = b.e2
    /\ a.nTime = b.nTime
    /\ a.nonce = b.nonce

\* C1: a registerSubmit call returns true if and only if no earlier call on
\* the template was made with the same 4-tuple (extraNonce1, extraNonce2,
\* nTime, nonce), and no fingerprint is stored twice in submits.
C1_TrueIffTupleIsNew ==
    /\ \A i \in 1..Len(calls) :
          calls[i].ret = (\A j \in 1..(i - 1) : ~SameTuple(calls[j], calls[i]))
    /\ \A i, j \in 1..Len(submits) : submits[i] = submits[j] => i = j


(***************************************************************************)
(* Byte utilities used by the peer (util.js is not among the sources; the  *)
(* packers follow their description in the specification, section 4.A)     *)
(***************************************************************************)
\* Buffer.readUInt8 / readUInt16LE / readUInt32LE at offset off (0-based).
\* Callers test the length first: the read throws a RangeError beyond it.
ReadUInt8(buf, off) == buf[off + 1]

ReadUInt16LE(buf, off) == buf[off + 1] + 256 * buf[off + 2]

ReadUInt32LE(buf, off) ==
    buf[off + 1] + 256 * buf[off + 2] + 65536 * buf[off + 3]
        + 16777216 * buf[off + 4]

\* util.packUInt32LE(n): 4 bytes, little endian
PackUInt32LE(n) ==
    <<n % 256, (n \div 256) % 256, (n \div 65536) % 256,
      (n \div 16777216) % 256>>

RECURSIVE WeightedSum(_, _)
WeightedSum(buf, w) ==
    IF buf = <<>> THEN 0 ELSE w * Head(buf) + WeightedSum(Tail(buf), w + 1)

\* util.sha256d(payload), of which the frame uses the first four bytes.  A
\* stand-in digest: the framing depends only on its being a function of the
\* payload (bytes kept below 128 so that its readUInt32LE stays in range).
Sha256d(payload) ==
    <<(93 + WeightedSum(payload, 1)) % 128,
      (118 + 3 * WeightedSum(payload, 2)) % 128,
      (96 + 5 * Len(payload)) % 128,
      (98 + 7 * WeightedSum(payload, 3)) % 128>>

HexDigits ==
    <<"0", "1", "2", "3", "4", "5", "6", "7", "8", "9", "a", "b", "c", "d",
      "e", "f">>

\* Buffer.toString('hex')
RECURSIVE ToHex(_)
ToHex(buf) ==
    IF buf = <<>> THEN ""
    ELSE HexDigits[(Head(buf) \div 16) + 1] \o HexDigits[(Head(buf) % 16) + 1]
             \o ToHex(Tail(buf))

Zeros(n) == [i \in 1..n |-> 0]

(***************************************************************************)
(* Peer: constants of the wire format                                      *)
(***************************************************************************)
HeaderLen == 24
CommandLen == 12
VectorLen == 36
VarIntPrefix == 253

\* fixedLenStringBuffer(s, len), s given by its character codes
FixedLenStringBuffer(s, len) ==
    IF Len(s) >= len THEN Take(s, len) ELSE s \o Zeros(len - Len(s))

CommandStringBuffer(s) == FixedLenStringBuffer(s, CommandLen)

\* this.commands (the strings as ASCII codes)
commands ==
    [version   |-> CommandStringBuffer(<<118, 101, 114, 115, 105, 111, 110>>),
     inv       |-> CommandStringBuffer(<<105, 110, 118>>),
     verack    |-> CommandStringBuffer(<<118, 101, 114, 97, 99, 107>>),
     addr      |-> CommandStringBuffer(<<97, 100, 100, 114>>),
     getblocks |-> CommandStringBuffer(<<103, 101, 116, 98, 108, 111, 99,
                                        107, 115>>)]

\* this.invCodes
invCodes == [error |-> 0, tx |-> 1, block |-> 2]

\* this.magic = options.coin.peerMagic (here 0b110907) and this.magicInt
magic == <<11, 17, 9, 7>>

magicInt == ReadUInt32LE(magic, 0)

\* An emitted event.  The host listens for 'error': an emitter without such
\* a listener would throw on emit('error').
Ev(e, msg, command, payload) ==
    [e |-> e, msg |-> msg, command |-> command, payload |-> payload]

EvConnected == Ev("connected", "", <<>>, <<>>)

EvBlockFound(hash) == Ev("blockFound", hash, <<>>, <<>>)

EvPeerMessage(command, payload) == Ev("peerMessage", "", command, payload)

EvError(msg) == Ev("error", msg, <<>>, <<>>)

BadMagic == "bad magic number from peer"

BadPayload == "bad payload - failed checksum"

(***************************************************************************)
(* Peer.HandleInv and Peer.HandleMessage.  acc is the state a data handler *)
(* threads through its callbacks: [verack, log, threw].                    *)
(***************************************************************************)
Emit(acc, ev) == [acc EXCEPT !.log = Append(@, ev)]

Throw(acc) == [acc EXCEPT !.threw = TRUE]

\* One pass of the while (count--) loop body, then the rest of the loop
RECURSIVE InvLoop(_, _, _)
InvLoop(count, payload, acc) ==
    IF count = 0 THEN acc
    ELSE IF Len(payload) < 4 THEN Throw(acc)
    ELSE LET type == ReadUInt32LE(payload, 0)
             hash == ToHex(SubSeq(payload, 5,
                                  IF Len(payload) < VectorLen
                                  THEN Len(payload) ELSE VectorLen))
             acc2 == IF type = invCodes.block
                     THEN Emit(acc, EvBlockFound(hash))
                     ELSE acc
         IN  InvLoop(count - 1, Drop(payload, IF Len(payload) < VectorLen
                                              THEN Len(payload)
                                              ELSE VectorLen), acc2)

\* (mutant) the two count bytes are not sliced off after a 0xfd prefix
HandleInvKeepsCount(payload, acc) ==
    IF Len(payload) < 1 THEN Throw(acc)
    ELSE LET count == ReadUInt8(payload, 0)
             rest == Drop(payload, 1)
         IN  IF count >= VarIntPrefix
             THEN IF Len(rest) < 2 THEN Throw(acc)
                  ELSE InvLoop(ReadUInt16LE(rest, 0), rest, acc)
             ELSE InvLoop(count, rest, acc)

HandleInv(payload, acc) ==
    IF Len(payload) < 1 THEN Throw(acc)
    ELSE LET count == ReadUInt8(payload, 0)
             rest == Drop(payload, 1)
         IN  IF count >= VarIntPrefix
             THEN IF Len(rest) < 2 THEN Throw(acc)
                  ELSE InvLoop(ReadUInt16LE(rest, 0), Drop(rest, 2), acc)
             ELSE InvLoop(count, rest, acc)

\* (mutant) the verack branch without its if (!this.verack)
HandleMessageEveryVerack(command, payload, acc) ==
    LET acc1 == Emit(acc, EvPeerMessage(command, payload))
    IN  IF command = commands.inv THEN HandleInv(payload, acc1)
        ELSE IF command = commands.verack
        THEN Emit([acc1 EXCEPT !.verack = TRUE], EvConnected)
        ELSE acc1

HandleMessage(command, payload, acc) ==
    LET acc1 == Emit(acc, EvPeerMessage(command, payload))
    IN  IF command = commands.inv THEN HandleInv(payload, acc1)
        ELSE IF command = commands.verack
        THEN IF ~acc1.verack
             THEN Emit([acc1 EXCEPT !.verack = TRUE], EvConnected)
             ELSE acc1
        ELSE acc1

(***************************************************************************)
(* Peer.SetupMessageParser over readFlowingBytes.  Between two data events *)
(* the parser is the one pending readFlowingBytes: which read it is, the   *)
(* bytes it has buffered, and for a payload read the header's fields.      *)
(***************************************************************************)
WaitHeader(buff) ==
    [phase |-> "header", buff |-> buff, command |-> <<>>, length |-> 0,
     checksum |-> 0]

WaitPayload(buff, command, length, checksum) ==
    [phase |-> "payload", buff |-> buff, command |-> command,
     length |-> length, checksum |-> checksum]

\* No data listener is registered any more (the handler threw)
Dead == [phase |-> "dead", buff |-> <<>>, command |-> <<>>, length |-> 0,
         checksum |-> 0]

Result(p, acc) == [parser |-> p, acc |-> acc]

\* while (header.readUInt32LE(0) !== this.magicInt && header.length >= 4)
\*     header = header.slice(1);
RECURSIVE Rescan(_)
Rescan(header) ==
    IF Len(header) < 4 THEN [threw |-> TRUE, header |-> header]
    ELSE IF ReadUInt32LE(header, 0) /= magicInt /\ Len(header) >= 4
    THEN Rescan(Tail(header))
    ELSE [threw |-> FALSE, header |-> header]

\* What is handed on when the payload's checksum fails: beginReadingMessage(null)
AfterBadChecksum(lopped) == <<>>

\* What is handed on after a rescan that found the magic: the sliced header
AfterBadMagic(header, lopped) == header

\* (mutant) the over-read bytes are dropped as in the error branch
AfterMessageDropsLopped(lopped) == <<>>

\* What is handed on after a dispatched message: beginReadingMessage(lopped)
AfterMessage(lopped) == lopped

RECURSIVE BeginReadingMessage(_, _), ReadPayload(_, _, _, _, _)
BeginReadingMessage(preRead, acc) ==
    IF Len(preRead) < HeaderLen THEN Result(WaitHeader(preRead), acc)
    ELSE LET header == Take(preRead, HeaderLen)
             lopped == Drop(preRead, HeaderLen)
         IN  IF ReadUInt32LE(header, 0) /= magicInt
             THEN LET acc1 == Emit(acc, EvError(BadMagic))
                      r == Rescan(header)
                  IN  IF r.threw THEN Result(Dead, Throw(acc1))
                      ELSE IF ReadUInt32LE(r.header, 0) = magicInt
                      THEN BeginReadingMessage(
                               AfterBadMagic(r.header, lopped), acc1)
                      ELSE BeginReadingMessage(<<>>, acc1)
             ELSE ReadPayload(SubSeq(header, 5, 16),
                              ReadUInt32LE(header, 16),
                              ReadUInt32LE(header, 20), lopped, acc)

ReadPayload(msgCommand, msgLength, msgChecksum, preRead, acc) ==
    IF Len(preRead) < msgLength
    THEN Result(WaitPayload(preRead, msgCommand, msgLength, msgChecksum), acc)
    ELSE LET payload == Take(preRead, msgLength)
             lopped == Drop(preRead, msgLength)
         IN  IF ReadUInt32LE(Sha256d(payload), 0) /= msgChecksum
             THEN BeginReadingMessage(AfterBadChecksum(lopped),
                                      Emit(acc, EvError(BadPayload)))
             ELSE LET acc1 == HandleMessage(msgCommand, payload, acc)
                  IN  IF acc1.threw THEN Result(Dead, acc1)
                      ELSE BeginReadingMessage(AfterMessage(lopped), acc1)

\* readData(data) of the pending readFlowingBytes
ReadData(p, data, acc) ==
    IF p.phase = "header" THEN BeginReadingMessage(p.buff \o data, acc)
    ELSE IF p.phase = "payload"
    THEN ReadPayload(p.command, p.length, p.checksum, p.buff \o data, acc)
    ELSE Result(p, acc)

\* Peer.SendMessage: the bytes of one frame
SendMessage(command, payload) ==
    magic \o command \o PackUInt32LE(Len(payload))
          \o Take(Sha256d(payload), 4) \o payload


(***************************************************************************)
(* What the remote node sends: a stream is a sequence of items, each a     *)
(* frame as SendMessage serializes it (with its checksum field intact or   *)
(* corrupted) or a run of bytes that are no frame.                         *)
(***************************************************************************)
MaxFrames == 2
MaxGarbage == 21
MaxConnections == 2

HashA == [i \in 1..32 |-> i]

HashB == [i \in 1..32 |-> 100 - i]

\* An inv payload: the count, as one byte or as 0xfd and 16 bits, and the
\* 36-byte vectors (type as 4 bytes little endian, then the hash)
EncodeInv(vectors, wide) ==
    (IF wide
     THEN <<VarIntPrefix, Len(vectors) % 256, Len(vectors) \div 256>>
     ELSE <<Len(vectors)>>)
        \o Flatten([i \in 1..Len(vectors) |->
                       PackUInt32LE(vectors[i].type) \o vectors[i].hash])

Frame(command, payload, intact) ==
    [kind |-> "frame", command |-> command, payload |-> payload,
     intact |-> intact, bytes |-> <<>>]

Garbage(bytes) ==
    [kind |-> "garbage", command |-> <<>>, payload |-> <<>>,
     intact |-> FALSE, bytes |-> bytes]

\* Payloads valid for their command: verack carries none, inv one block
\* vector, addr (a command the peer ignores) two bytes
GoodFrames ==
    {Frame(commands.verack, <<>>, TRUE),
     Frame(commands.inv,
           EncodeInv(<<[type |-> invCodes.block, hash |-> HashA]>>, FALSE),
           TRUE),
     Frame(commands.addr, <<0, 1>>, TRUE)}

Corrupted(f) == [f EXCEPT !.intact = FALSE]

\* k bytes holding no magic: zeros, or zeros ending in the magic's first byte
GarbageRuns ==
    {Zeros(k) : k \in 1..MaxGarbage}
        \cup {Zeros(k - 1) \o <<magic[1]>> : k \in 1..MaxGarbage}

WellFormedStreams == SeqsOf(GoodFrames, 1, MaxFrames)

CorruptedThenGoodStreams == {<<Corrupted(f), g>> : f, g \in GoodFrames}

GarbageThenVerackStreams ==
    {<<Garbage(b), Frame(commands.verack, <<>>, TRUE)>> : b \in GarbageRuns}

Streams ==
    WellFormedStreams \cup CorruptedThenGoodStreams
        \cup GarbageThenVerackStreams

\* What a node sends around the handshake: nothing, or veracks and messages
\* the peer ignores
HandshakeStreams ==
    {<<>>} \cup SeqsOf({Frame(commands.verack, <<>>, TRUE),
                        Frame(commands.addr, <<0, 1>>, TRUE)}, 1, MaxFrames)

\* The checksum field with its first byte changed
CorruptChecksum(frame) ==
    [frame EXCEPT ![21] = (@ + 1) % 128]

ItemBytes(item) ==
    IF item.kind = "garbage" THEN item.bytes
    ELSE IF item.intact THEN SendMessage(item.command, item.payload)
    ELSE CorruptChecksum(SendMessage(item.command, item.payload))

StreamBytes(s) == Flatten([i \in 1..Len(s) |-> ItemBytes(s[i])])

(***************************************************************************)
(* Peer: connection life cycle                                             *)
(***************************************************************************)
\* The events of peerLog that the connection history records too
LifeOf(log) ==
    Flatten([i \in 1..Len(log) |->
                IF log[i].e = "connected" THEN <<"connected">>
                ELSE IF log[i].e = "peerMessage"
                        /\ log[i].command = commands.verack
                THEN <<"verack">>
                ELSE <<>>])

\* Peer.Connect: a new socket with its close and error handlers and a parser
\* started by beginReadingMessage(null)
Connect(history) ==
    /\ client' = "connecting"
    /\ conn' = conn + 1
    /\ parser' = BeginReadingMessage(<<>>, [verack |-> FALSE, log |-> <<>>,
                                            threw |-> FALSE]).parser
    /\ wire' = <<>>
    /\ scenario' = <<>>
    /\ peerLog' = <<>>
    /\ life' = Append(history, "connect")

\* The constructor, which ends by calling Connect
PeerInit ==
    /\ client = "connecting"
    /\ conn = 1
    /\ verack = FALSE
    /\ validConnectionConfig = TRUE
    /\ parser = WaitHeader(<<>>)
    /\ wire = <<>>
    /\ scenario = <<>>
    /\ peerLog = <<>>
    /\ life = <<"connect">>

\* The connect callback: SendVersion.  The remote node then serializes one
\* of the given streams (the version payload itself is not tracked).
Established(streams) ==
    /\ client = "connecting"
    /\ client' = "open"
    /\ life' = Append(life, "version")
    /\ \E s \in streams :
          /\ scenario' = s
          /\ wire' = StreamBytes(s)
    /\ UNCHANGED <<conn, verack, validConnectionConfig, parser, peerLog>>
    /\ UNCHANGED <<tvars, ivars, cvars, svars, hvars, bvars>>

\* A 'data' event with the next n bytes of the stream
Data(n) ==
    /\ client = "open"
    /\ n \in 1..Len(wire)
    /\ LET r == ReadData(parser, Take(wire, n),
                         [verack |-> verack, log |-> <<>>, threw |-> FALSE])
       IN  /\ parser' = r.parser
           /\ verack' = r.acc.verack
           /\ peerLog' = peerLog \o r.acc.log
           /\ life' = life \o LifeOf(r.acc.log)
    /\ wire' = Drop(wire, n)
    /\ UNCHANGED <<client, conn, validConnectionConfig, scenario>>
    /\ UNCHANGED <<tvars, ivars, cvars, svars, hvars, bvars>>

\* The 'error' handler.  ECONNREFUSED is the failure of the connection
\* attempt; a socket emits one error and then closes.
\* (mutant) ECONNREFUSED leaves validConnectionConfig as it is
SocketErrorKeepsConfig(code) ==
    /\ validConnectionConfig' = validConnectionConfig
    /\ life' = life \o <<code, IF code = "ECONNREFUSED"
                                THEN "connectionFailed" ELSE "socketError">>

SocketErrorEffect(code) ==
    IF code = "ECONNREFUSED"
    THEN /\ validConnectionConfig' = FALSE
         /\ life' = life \o <<code, "connectionFailed">>
    ELSE /\ validConnectionConfig' = validConnectionConfig
         /\ life' = life \o <<code, "socketError">>

SocketError(code) ==
    /\ \/ client = "connecting"
       \/ client = "open" /\ code /= "ECONNREFUSED"
    /\ client' = "errored"
    /\ SocketErrorEffect(code)
    /\ UNCHANGED <<conn, verack, parser, wire, scenario, peerLog>>
    /\ UNCHANGED <<tvars, ivars, cvars, svars, hvars, bvars>>

\* (mutant) the close handler reconnects whatever the handshake state
ReconnectAlways == TRUE

\* The 'close' handler: if (this.verack)
ReconnectOnClose == verack

Close ==
    /\ client \in {"open", "errored"}
    /\ IF ReconnectOnClose
       THEN /\ conn < MaxConnections
            /\ verack' = FALSE
            /\ Connect(life \o <<"close", "disconnected">>)
            /\ UNCHANGED validConnectionConfig
       ELSE /\ client' = "closed"
            /\ life' = life \o (IF validConnectionConfig
                                THEN <<"close", "connectionRejected">>
                                ELSE <<"close">>)
            /\ UNCHANGED <<conn, verack, validConnectionConfig, parser,
                           wire, scenario, peerLog>>
    /\ UNCHANGED <<tvars, ivars, cvars, svars, hvars, bvars>>

\* The parser on one connection, fed any of the streams
ParserNext ==
    \/ Established(Streams)
    \/ \E n \in 1..Len(wire) : Data(n)

PeerNext ==
    \/ Established(HandshakeStreams)
    \/ \E n \in 1..Len(wire) : Data(n)
    \/ \E code \in {"ECONNREFUSED", "ETIMEDOUT"} : SocketError(code)
    \/ Close


(***************************************************************************)
(* Peer: properties of the parser                                          *)
(***************************************************************************)
IsError(ev) == ev.e = "error"

IsPeerMessage(ev) == ev.e = "peerMessage"

Errors(log) == SelectSeq(log, IsError)

Dispatched(log) == SelectSeq(log, IsPeerMessage)

\* Number of bytes of the stream delivered so far
Delivered == Len(StreamBytes(scenario)) - Len(wire)

\* Number of leading items of stream s that end within its first n bytes
RECURSIVE Complete(_, _)
Complete(s, n) ==
    IF s = <<>> \/ Len(ItemBytes(Head(s))) > n THEN 0
    ELSE 1 + Complete(Tail(s), n - Len(ItemBytes(Head(s))))

C3_ResyncAfterBadChecksum ==
    (scenario \in CorruptedThenGoodStreams /\ wire = <<>>) =>
        /\ Errors(peerLog) = <<EvError(BadPayload)>>
        /\ client = "open"
        /\ parser.phase /= "dead"
        /\ Dispatched(peerLog)
              = <<EvPeerMessage(scenario[2].command, scenario[2].payload)>>

\* C4: when k >= 1 bytes holding no magic precede a valid verack frame, then
\* for any splitting into chunks the parser emits exactly one 'bad magic
\* number' error, realigns and processes the verack: connected is emitted.
C4_ResyncAfterGarbage ==
    (scenario \in GarbageThenVerackStreams /\ wire = <<>>) =>
        /\ Errors(peerLog) = <<EvError(BadMagic)>>
        /\ \E i \in 1..Len(peerLog) : peerLog[i] = EvConnected
        /\ verack

(***************************************************************************)
(* Peer: properties of the connection life cycle                           *)
(***************************************************************************)
\* Index in life of the latest "connect": the start of the current connection
RECURSIVE LastConnect(_)
LastConnect(n) ==
    IF n = 0 \/ life[n] = "connect" THEN n ELSE LastConnect(n - 1)

\* The history of the current connection, from its "connect" on
Segment == SubSeq(life, LastConnect(Len(life)), Len(life))

Indices(seq, x) == {i \in 1..Len(seq) : seq[i] = x}

\* C5: on every connection a version message is sent when the connection is
\* established, and connected is emitted exactly once per connection, at the
\* first verack received on it: never without a verack, never again at a
\* later verack.
C5_ConnectedOncePerConnection ==
    LET seg == Segment
        versions == Indices(seg, "version")
        veracks == Indices(seg, "verack")
        connecteds == Indices(seg, "connected")
    IN  /\ client = "connecting" => versions = {}
        /\ client = "open" => versions = {2}
        /\ Cardinality(versions) <= 1
        /\ \A i \in veracks \cup connecteds : versions = {2} /\ i > 2
        /\ veracks = {} => connecteds = {}
        /\ veracks /= {} =>
              \E c \in connecteds :
                  /\ connecteds = {c}
                  /\ c - 1 \in veracks
                  /\ \A v \in veracks : v >= c - 1
        /\ client \in {"open", "errored"} => (verack <=> veracks /= {})

\* A connection on which two veracks were received and one connected emitted
C5_Witness ==
    /\ client = "open"
    /\ Cardinality(Indices(Segment, "verack")) = 2
    /\ Cardinality(Indices(Segment, "connected")) = 1

\* The step is the close handler's
ClosesNow == Len(life') > Len(life) /\ life'[Len(life) + 1] = "close"

\* C6: when the socket closes after a verack was received on it, the peer
\* emits disconnected, resets verack and opens a new connection (on which
\* version is sent and a verack emits connected again, by C5); when it
\* closes before any verack while validConnectionConfig is true, the peer
\* emits connectionRejected and does not reconnect.
C6_CloseHandling ==
    /\ [][ClosesNow =>
            /\ verack =>
                  /\ life' = life \o <<"close", "disconnected", "connect">>
                  /\ ~verack'
                  /\ client' = "connecting"
                  /\ conn' = conn + 1
                  /\ parser' = WaitHeader(<<>>)
            /\ (~verack /\ validConnectionConfig) =>
                  /\ life' = life \o <<"close", "connectionRejected">>
                  /\ client' = "closed"
                  /\ conn' = conn]_vars
    /\ [][client /= "closed"]_vars
    /\ [](client = "connecting" => ~verack)

\* After a close with the handshake done, the new connection was established
\* and its verack emitted connected again
C6_Witness ==
    /\ conn = 2
    /\ \E i \in 1..Len(life) : life[i] = "disconnected"
    /\ Indices(Segment, "version") /= {}
    /\ Indices(Segment, "connected") /= {}

\* A close before any verack was answered by connectionRejected
C6_WitnessRejected ==
    /\ client = "closed"
    /\ life[Len(life)] = "connectionRejected"

\* The step is the error handler's, for an error with this code
ErrorNow(code) == Len(life') > Len(life) /\ life'[Len(life) + 1] = code

\* The part of C7 about ECONNREFUSED: it clears validConnectionConfig, emits
\* connectionFailed and is followed by no reconnection, no connectionRejected
RefusedPart ==
    /\ [][ErrorNow("ECONNREFUSED") =>
            /\ ~validConnectionConfig'
            /\ life' = life \o <<"ECONNREFUSED", "connectionFailed">>]_vars
    /\ [](\A i, j \in 1..Len(life) :
            (life[i] = "connectionFailed" /\ i < j) =>
                life[j] \notin {"connect", "connectionRejected"})
    /\ []((\E i \in 1..Len(life) : life[i] = "connectionFailed") =>
             ~validConnectionConfig)

OtherErrorEmits ==
    [][ErrorNow("ETIMEDOUT") =>
          /\ life' = life \o <<"ETIMEDOUT", "socketError">>
          /\ validConnectionConfig' = validConnectionConfig]_vars

\* The socket closes after an error other than ECONNREFUSED
ClosesAfterOtherError ==
    /\ ClosesNow
    /\ client = "errored"
    /\ life[Len(life)] = "socketError"

\* C7 as stated: ECONNREFUSED clears validConnectionConfig, emits
\* connectionFailed and is followed by no reconnection and no
\* connectionRejected; any other socket error emits socketError, and the peer
\* reconnects when the socket subsequently closes.
C7_AsStated ==
    /\ RefusedPart
    /\ OtherErrorEmits
    /\ [][ClosesAfterOtherError =>
            (client' = "connecting" /\ conn' = conn + 1)]_vars

\* C7 amended: ... any other socket error emits socketError, and when the
\* socket subsequently closes the peer reconnects if a verack had been
\* received on that connection; otherwise it emits connectionRejected and
\* does not reconnect.
C7_Amended ==
    /\ RefusedPart
    /\ OtherErrorEmits
    /\ [][ClosesAfterOtherError =>
            IF verack
            THEN /\ client' = "connecting"
                 /\ conn' = conn + 1
                 /\ life' = life \o <<"close", "disconnected", "connect">>
            ELSE /\ client' = "closed"
                 /\ conn' = conn
                 /\ life' = life \o <<"close", "connectionRejected">>]_vars

\* Both cases happened: a connection closed after a socketError and was
\* replaced, and the new connection was refused and closed with no event
C7_Witness ==
    /\ client = "closed"
    /\ ~validConnectionConfig
    /\ life[Len(life)] = "close"
    /\ \E i \in 1..Len(life) : life[i] = "socketError"

\* The sockets opened and not yet closed after the first n events
Live(n) ==
    Cardinality(Indices(Take(life, n), "connect"))
        - Cardinality(Indices(Take(life, n), "close"))

\* C27: the peer has at most one socket open or connecting at any time; a
\* connection is opened only at construction and in reaction to the close
\* of a connection on which the handshake had completed, a close opens at
\* most one connection, and verack is false at the start of every
\* connection.
C27_OneSocket ==
    /\ life[1] = "connect"
    /\ \A n \in 1..Len(life) : Live(n) \in {0, 1}
    /\ Live(Len(life)) = IF client = "closed" THEN 0 ELSE 1
    /\ conn = Cardinality(Indices(life, "connect"))
    /\ \A i \in 2..Len(life) :
          life[i] = "connect" =>
              /\ i > 3
              /\ life[i - 1] = "disconnected"
              /\ life[i - 2] = "close"
              /\ \E k \in LastConnect(i - 1)..(i - 1) : life[k] = "verack"
    /\ life[Len(life)] = "connect" => ~verack

\* The second connection, opened at the close of the first, has completed
\* its handshake
C27_Witness ==
    /\ conn = 2
    /\ client = "open"
    /\ verack
    /\ Indices(life, "close") /= {}

(***************************************************************************)
(* Peer.HandleInv applied to one inv payload                               *)
(***************************************************************************)
MaxVectors == 2

\* The vectors a node announces: the three known types and a type the peer
\* does not know, with either hash
VectorMenu ==
    {[type |-> t, hash |-> h] : t \in {invCodes.error, invCodes.tx,
                                       invCodes.block, 3},
                                h \in {HashA, HashB}}

\* An inventory, how its count is encoded, and how many bytes of the payload
\* are missing at its end (0 for a complete payload)
InvInputs ==
    {[vectors |-> v, wide |-> w, cut |-> c,
      payload |-> Take(EncodeInv(v, w), Len(EncodeInv(v, w)) - c)] :
        v \in SeqsOf(VectorMenu, 0, MaxVectors), w \in BOOLEAN, c \in {0, 33}}

InvInit ==
    /\ invIn \in InvInputs
    /\ invOut = <<>>

ApplyHandleInv ==
    /\ invOut = <<>>
    /\ invOut' = <<HandleInv(invIn.payload, [verack |-> FALSE, log |-> <<>>,
                                               threw |-> FALSE])>>
    /\ UNCHANGED <<invIn, tvars, pvars, cvars, svars, hvars, bvars>>

InvNext == ApplyHandleInv

\* One blockFound per vector of type 2, in order, with the hash as hex
RECURSIVE ExpectedBlocks(_)
ExpectedBlocks(vectors) ==
    IF vectors = <<>> THEN <<>>
    ELSE (IF Head(vectors).type = 2
          THEN <<EvBlockFound(ToHex(Head(vectors).hash))>>
          ELSE <<>>) \o ExpectedBlocks(Tail(vectors))

\* C8: for an inv payload whose count n is encoded as one byte, or as 0xfd
\* and a 16-bit count, followed by n 36-byte vectors, HandleInv emits exactly
\* one blockFound per vector of type 2, in payload order, each carrying that
\* vector's 32-byte hash as hex, and nothing for vectors of type 0 or 1.
C8_BlockFoundPerBlockVector ==
    (invOut /= <<>> /\ invIn.cut = 0) =>
        /\ ~invOut[1].threw
        /\ invOut[1].log = ExpectedBlocks(invIn.vectors)
        /\ \A i \in 1..Len(invOut[1].log) : Len(invOut[1].log[i].msg) = 64

\* A count encoded with the 0xfd prefix, a transaction and a block: one
\* blockFound was emitted
C8_Witness ==
    /\ invOut /= <<>>
    /\ invIn.cut = 0
    /\ invIn.wide
    /\ Len(invIn.vectors) = 2
    /\ invIn.vectors[1].type = invCodes.tx
    /\ invIn.vectors[2].type = invCodes.block
    /\ invOut[1].log = <<EvBlockFound(ToHex(invIn.vectors[2].hash))>>

(***************************************************************************)
(* StratumClient.  A handler works on the session record                   *)
(*   c = [authorized, extraNonce1, shares, socket, pending, out, emitted,  *)
(*        threw, ran]                                                      *)
(* where out and emitted collect what the step writes and emits, and ran   *)
(* the handlers it has run.  JSON values are kept as their JSON text.      *)
(* workerName, workerPass, lastActivity and requestedSubscriptionBeforeAuth*)
(* are stored by the handlers and read by none of them: they are not       *)
(* tracked.  Messages carry the params their method reads.                 *)
(***************************************************************************)
MaxPending == 2
MaxOver == 1
MaxBuffered == 2

Ids == {"1", "2"}

Methods ==
    {"mining.subscribe", "mining.authorize", "mining.submit",
     "mining.get_transactions", "mining.extranonce.subscribe"}

\* options.banning as the pool configures it
BanningConfigs ==
    {[enabled |-> FALSE, checkThreshold |-> 2, invalidPercent |-> 50],
     [enabled |-> TRUE, checkThreshold |-> 2, invalidPercent |-> 50],
     [enabled |-> TRUE, checkThreshold |-> 10, invalidPercent |-> 50]}

\* options.subscriptionId
SubscriptionId == "deadbeefcafebabe0100000000000000"

Reply(id, result, error) == [id |-> id, result |-> result, error |-> error]

UnauthorizedWorker == "[24,\"unauthorized worker\",null]"

NotSubscribed == "[25,\"not subscribed\",null]"

SubscribeResult(en1, en2Size) ==
    "[[[\"mining.set_difficulty\",\"" \o SubscriptionId
        \o "\"],[\"mining.notify\",\"" \o SubscriptionId \o "\"]],\""
        \o en1 \o "\"," \o en2Size \o "]"

ClientEv(e, id, n1, n2) == [e |-> e, id |-> id, n1 |-> n1, n2 |-> n2]

\* sendJson(obj): one socket.write
SendJson(c, obj) == [c EXCEPT !.out = Append(@, obj)]

ClientEmit(c, ev) == [c EXCEPT !.emitted = Append(@, ev)]

ClientThrow(c) == [c EXCEPT !.threw = TRUE]

\* The host is handed a callback
Defer(c, kind, id) ==
    [c EXCEPT !.pending = Append(@, [kind |-> kind, id |-> id])]

\* this.socket.destroy(); return true;  -- the session stores its socket as
\* this.options.socket only: this.socket is undefined and the call throws a
\* TypeError before anything is destroyed or returned
DestroyOnBan(c) == [c |-> ClientThrow(c), ret |-> FALSE]

\* this.considerBan(shareValid), as the constructor builds it.  percentBad <
\* invalidPercent is (invalid / total) * 100 < invalidPercent, compared here
\* without the division.
ConsiderBan(c, shareValid) ==
    IF ~banning.enabled THEN [c |-> c, ret |-> FALSE]
    ELSE LET sh == IF shareValid
                   THEN [c.shares EXCEPT !.valid = @ + 1]
                   ELSE [c.shares EXCEPT !.invalid = @ + 1]
             totalShares == sh.valid + sh.invalid
             c1 == [c EXCEPT !.shares = sh]
         IN  IF totalShares >= banning.checkThreshold
             THEN IF sh.invalid * 100 < banning.invalidPercent * totalShares
                  THEN [c |-> [c EXCEPT !.shares = [valid |-> 0,
                                                    invalid |-> 0]],
                        ret |-> FALSE]
                  ELSE DestroyOnBan(ClientEmit(c1,
                           ClientEv("triggerBan", "null", sh.invalid,
                                    totalShares)))
             ELSE [c |-> c1, ret |-> FALSE]

HandleSubscribe(c, message) ==
    Defer(ClientEmit(c, ClientEv("subscription", message.id, 0, 0)),
          "subscription", message.id)

HandleAuthorize(c, message) == Defer(c, "authorize", message.id)

\* (mutant) handleSubmit without its if (!this.extraNonce1)
SubmitGateSkipsSubscription(c) ==
    IF ~c.authorized THEN UnauthorizedWorker ELSE "null"

\* The two rejections of handleSubmit: the error of the reply, "null" if the
\* share goes on to the host
SubmitGate(c) ==
    IF ~c.authorized THEN UnauthorizedWorker
    ELSE IF c.extraNonce1 = "" THEN NotSubscribed
    ELSE "null"

HandleSubmit(c, message) ==
    IF SubmitGate(c) /= "null"
    THEN ConsiderBan(SendJson(c, Reply(message.id, "null", SubmitGate(c))),
                     FALSE).c
    ELSE Defer(ClientEmit(c, ClientEv("submit", message.id, 0, 0)),
               "submit", message.id)

HandleClientMessage(c, message) ==
    CASE message.method = "mining.subscribe" -> HandleSubscribe(c, message)
      [] message.method = "mining.authorize" -> HandleAuthorize(c, message)
      [] message.method = "mining.submit" -> HandleSubmit(c, message)
      [] message.method = "mining.get_transactions" ->
             SendJson(c, Reply("null", "[]", "true"))
      [] OTHER ->
             ClientEmit(c, ClientEv("unknownStratumMethod", message.id, 0, 0))

\* The callback handleSubscribe gave the host
SubscriptionCallback(c, id, error, en1, en2Size) ==
    IF error /= "null" THEN SendJson(c, Reply(id, "null", error))
    ELSE SendJson([c EXCEPT !.extraNonce1 = en1],
                  Reply(id, SubscribeResult(en1, en2Size), "null"))

\* The callback handleAuthorize gave the authorizer (replyToSocket = true)
AuthorizeCallback(c, id, result) ==
    LET auth == result.error = "null" /\ result.authorized
        c1 == SendJson([c EXCEPT !.authorized = auth],
                       Reply(id, IF auth THEN "true" ELSE "false",
                             result.error))
    IN  IF result.disconnect THEN [c1 EXCEPT !.socket = "destroyed"] ELSE c1

\* (mutant) the acknowledgement is forwarded before the share is counted
SubmitCallbackRepliesFirst(c, id, error, result) ==
    ConsiderBan(SendJson(c, Reply(id, result, error)), result = "true").c

\* The callback handleSubmit gave the host
SubmitCallback(c, id, error, result) ==
    LET r == ConsiderBan(c, result = "true")
    IN  IF r.c.threw THEN r.c
        ELSE IF ~r.ret THEN SendJson(r.c, Reply(id, result, error))
        ELSE r.c

\* What a handler finds and leaves of the session
View(c) ==
    [authorized |-> c.authorized, extraNonce1 |-> c.extraNonce1,
     shares |-> c.shares, socket |-> c.socket]

\* The record of one handler run: from session c it led to session d
Handling(h, id, arg, err, c, d) ==
    [h |-> h, id |-> id, arg |-> arg, err |-> err, pre |-> View(c),
     post |-> View(d),
     out |-> d.out, emitted |-> d.emitted, threw |-> d.threw]

\* A handler starts with nothing written or emitted by itself
Fresh(c) == [c EXCEPT !.out = <<>>, !.emitted = <<>>]

\* Session c after a handler run that turned Fresh(c) into d
Ran(c, h, id, arg, err, d) ==
    [d EXCEPT !.out = c.out \o d.out,
              !.emitted = c.emitted \o d.emitted,
              !.ran = Append(c.ran, Handling(h, id, arg, err, c, d))]

(***************************************************************************)
(* The text a socket delivers.  A string is a sequence of atoms, each a    *)
(* piece of text of a known byte length: a newline, the JSON text of a     *)
(* request (whole, or as its two halves), text that is no JSON, a PROXY    *)
(* protocol header, the JSON texts 5 and null, and filler without newline. *)
(***************************************************************************)
FloodLimit == 10240

Atom(kind, id, method, size) ==
    [kind |-> kind, id |-> id, method |-> method, size |-> size]

Newline == Atom("nl", "", "", 1)

Request(id, method) == Atom("request", id, method, 64)

\* A request with insignificant whitespace up to 11000 bytes
PaddedRequest(id, method) == Atom("request", id, method, 11000)

FirstHalf(id, method) == Atom("firstHalf", id, method, 32)

SecondHalf(id, method) == Atom("secondHalf", id, method, 32)

Junk == Atom("junk", "", "", 5)

ProxyHeader == Atom("proxy", "", "", 40)

Scalar == Atom("scalar", "", "", 1)

JsonNull == Atom("null", "", "", 4)

Filler == Atom("filler", "", "", 6000)

\* Buffer.byteLength(text, 'utf8')
RECURSIVE ByteLength(_)
ByteLength(text) ==
    IF text = <<>> THEN 0 ELSE Head(text).size + ByteLength(Tail(text))

\* text.indexOf('\n') !== -1
HasNewline(text) == \E i \in 1..Len(text) : text[i].kind = "nl"

\* text.split('\n'): the pieces between newlines, the last one included
RECURSIVE Split(_, _)
Split(text, piece) ==
    IF text = <<>> THEN <<piece>>
    ELSE IF Head(text).kind = "nl" THEN <<piece>> \o Split(Tail(text), <<>>)
    ELSE Split(Tail(text), Append(piece, Head(text)))

\* d.indexOf('PROXY') === 0
BeginsWithProxy(d) == d /= <<>> /\ d[1].kind = "proxy"

\* JSON.parse(message): the value, or a SyntaxError
JsonParse(line) ==
    IF Len(line) = 1 /\ line[1].kind = "request"
    THEN [class |-> "request", id |-> line[1].id, method |-> line[1].method]
    ELSE IF Len(line) = 2 /\ line[1].kind = "firstHalf"
            /\ line[2] = SecondHalf(line[1].id, line[1].method)
    THEN [class |-> "request", id |-> line[1].id, method |-> line[1].method]
    ELSE IF Len(line) = 1 /\ line[1].kind = "scalar"
    THEN [class |-> "scalar", id |-> "undefined", method |-> "undefined"]
    ELSE IF Len(line) = 1 /\ line[1].kind = "null"
    THEN [class |-> "null", id |-> "undefined", method |-> "undefined"]
    ELSE [class |-> "SyntaxError", id |-> "undefined",
          method |-> "undefined"]

\* (mutant) the catch block destroys whatever the chunk begins with
MalformedAlways(c, d) ==
    [ClientEmit(c, ClientEv("malformedMessage", "null", 0, 0))
        EXCEPT !.socket = "destroyed"]

\* The catch block of JSON.parse
Malformed(c, d) ==
    IF proxy = "off" \/ ~BeginsWithProxy(d)
    THEN [ClientEmit(c, ClientEv("malformedMessage", "null", 0, 0))
             EXCEPT !.socket = "destroyed"]
    ELSE c

\* The body of messages.forEach(...) for one piece of chunk d
HandleLine(c, line, d) ==
    IF line = <<>> THEN c
    ELSE LET json == JsonParse(line)
         IN  Ran(c, json.method, json.id, json.class, "null",
                 IF json.class = "SyntaxError" THEN Malformed(Fresh(c), d)
                 ELSE IF json.class = "null" THEN Fresh(c)
                 ELSE HandleClientMessage(Fresh(c), json))

\* messages.forEach(...) of the 'data' handler: an exception thrown by
\* handleMessage ends the loop
RECURSIVE HandleLines(_, _, _)
HandleLines(c, lines, d) ==
    IF lines = <<>> \/ c.threw THEN c
    ELSE HandleLines(HandleLine(c, Head(lines), d), Tail(lines), d)

\* The once('data') listener of proxy mode, which runs before the 'data'
\* listener on the first chunk
ProxyOnce(c, d) ==
    IF proxy /= "first" THEN c
    ELSE Ran(c, "once", "null", "null", "null",
             ClientEmit(IF BeginsWithProxy(d) THEN Fresh(c)
                        ELSE ClientEmit(Fresh(c),
                                 ClientEv("tcpProxyError", "null", 0, 0)),
                        ClientEv("checkBan", "null", 0, 0)))

\* if (Buffer.byteLength(dataBuffer, 'utf8') > 10240)
Flooded(text) == ByteLength(text) > FloodLimit

\* The 'data' listener on buffer text = dataBuffer + d: the session it
\* leaves and the new dataBuffer
DataListener(c, text, d) ==
    IF Flooded(text)
    THEN [c |-> Ran(c, "flood", "null", "null", "null",
                    [ClientEmit(Fresh(c),
                                ClientEv("socketFlooded", "null", 0, 0))
                        EXCEPT !.socket = "destroyed"]),
          dataBuffer |-> <<>>]
    ELSE IF HasNewline(text)
    THEN LET messages == Split(text, <<>>)
             incomplete == messages[Len(messages)]
             c1 == HandleLines(c, Take(messages, Len(messages) - 1), d)
         IN  [c |-> c1,
              dataBuffer |-> IF c1.threw THEN text ELSE incomplete]
    ELSE [c |-> c, dataBuffer |-> text]

\* The session as a step finds it, and the variables as it leaves it
Session ==
    [authorized |-> authorized, extraNonce1 |-> extraNonce1,
     shares |-> shares, socket |-> socket, pending |-> pending,
     out |-> <<>>, emitted |-> <<>>, threw |-> FALSE, ran |-> <<>>]

Becomes(c) ==
    /\ authorized' = c.authorized
    /\ extraNonce1' = c.extraNonce1
    /\ shares' = c.shares
    /\ socket' = c.socket
    /\ pending' = c.pending
    /\ out' = c.out
    /\ emitted' = c.emitted
    /\ op' = c.ran
    /\ UNCHANGED banning

\* The exploration stops at MaxPending callbacks, and MaxOver shares past
\* the threshold
Capped(c) ==
    /\ Len(c.pending) <= MaxPending
    /\ c.shares.valid + c.shares.invalid <= banning.checkThreshold + MaxOver

\* The constructor and setupSocket
ClientInit ==
    /\ banning \in BanningConfigs
    /\ authorized = FALSE
    /\ extraNonce1 = ""
    /\ shares = [valid |-> 0, invalid |-> 0]
    /\ socket = "open"
    /\ dataBuffer = <<>>
    /\ proxy = "off"
    /\ received = [buffer |-> <<>>, d |-> <<>>]
    /\ overtaken = {}
    /\ pending = <<>>
    /\ op = <<>>
    /\ out = <<>>
    /\ emitted = <<>>

PendingIds(seq) == {seq[i].id : i \in 1..Len(seq)}

\* A 'data' event with chunk d.  If a handler throws, the listener is left
\* before dataBuffer = incomplete: the whole text stays buffered and is
\* handled again with the next chunk.  The miner gives a request an id that
\* none of its unanswered requests has.
OnData(d) ==
    /\ socket = "open"
    /\ \A i \in 1..Len(pending), j \in 1..Len(d) : pending[i].id /= d[j].id
    /\ LET r == DataListener(ProxyOnce(Session, d), dataBuffer \o d, d)
       IN  /\ Capped(r.c)
           /\ Len(r.dataBuffer) <= 2 * MaxBuffered
           /\ Becomes(r.c)
           /\ dataBuffer' = r.dataBuffer
    /\ proxy' = IF proxy = "first" THEN "on" ELSE proxy
    /\ received' = [buffer |-> dataBuffer, d |-> d]
    /\ overtaken' =
          (overtaken
              \cup (IF out' /= <<>> THEN PendingIds(pending) ELSE {})
              \cup {op'[k].id : k \in {k \in 1..Len(op') :
                        \E j \in (k + 1)..Len(op') : op'[j].out /= <<>>}})
          \cap PendingIds(pending')
    /\ UNCHANGED <<tvars, pvars, ivars, svars, hvars, bvars>>

Without(seq, i) == SubSeq(seq, 1, i - 1) \o SubSeq(seq, i + 1, Len(seq))

\* The callback of pending[i] is being invoked
Invoked(i) == [Session EXCEPT !.pending = Without(pending, i)]

\* History kept when the callback of pending[i] has run
Answered(i) ==
    /\ received' = [buffer |-> <<>>, d |-> <<>>]
    /\ overtaken' =
          (overtaken
              \cup (IF out' /= <<>> THEN PendingIds(SubSeq(pending, 1, i - 1))
                    ELSE {}))
          \ {pending[i].id}
    /\ UNCHANGED <<dataBuffer, proxy, tvars, pvars, ivars, svars, hvars, bvars>>

\* The host answers a subscription
SubscriptionReply(i, error) ==
    /\ i \in 1..Len(pending)
    /\ pending[i].kind = "subscription"
    /\ Becomes(Ran(Invoked(i), "subscriptionCallback", pending[i].id,
                   "null", error, SubscriptionCallback(Invoked(i), pending[i].id, error,
                                        "a1", "4")))
    /\ Answered(i)

\* result.authorized and result.disconnect of the authorizer, as text
AuthorizerSaid(result) ==
    (IF result.authorized THEN "authorized" ELSE "denied")
        \o (IF result.disconnect THEN ",disconnect" ELSE "")

\* The authorizer answers
AuthorizeReply(i, result) ==
    /\ i \in 1..Len(pending)
    /\ pending[i].kind = "authorize"
    /\ Becomes(Ran(Invoked(i), "authorizeCallback", pending[i].id,
                   AuthorizerSaid(result), result.error,
                   AuthorizeCallback(Invoked(i), pending[i].id, result)))
    /\ Answered(i)

\* The host acknowledges a share
SubmitAck(i, error, result) ==
    /\ i \in 1..Len(pending)
    /\ pending[i].kind = "submit"
    /\ LET c == Ran(Invoked(i), "submitCallback", pending[i].id, result,
                    error, SubmitCallback(Invoked(i), pending[i].id, error, result))
       IN  Capped(c) /\ Becomes(c)
    /\ Answered(i)

\* What the authorizer may answer
AuthorizerResults ==
    {[authorized |-> TRUE, error |-> "null", disconnect |-> FALSE],
     [authorized |-> FALSE, error |-> "null", disconnect |-> FALSE],
     [authorized |-> TRUE, error |-> "\"banned\"", disconnect |-> FALSE],
     [authorized |-> FALSE, error |-> "null", disconnect |-> TRUE]}

\* What the host may answer to a share: (error, result)
ShareResults ==
    {<<"null", "true">>, <<"null", "false">>, <<"\"stale\"", "null">>}

\* One complete request per chunk
RequestChunks == {<<Request(id, m), Newline>> : id \in Ids, m \in Methods}

ClientNext ==
    \/ \E d \in RequestChunks : OnData(d)
    \/ \E i \in 1..MaxPending, e \in {"null", "\"busy\""} :
          SubscriptionReply(i, e)
    \/ \E i \in 1..MaxPending, r \in AuthorizerResults : AuthorizeReply(i, r)
    \/ \E i \in 1..MaxPending, r \in ShareResults : SubmitAck(i, r[1], r[2])

(***************************************************************************)
(* The same session fed arbitrary text, with proxy mode off or on.         *)
(***************************************************************************)
LineMethods == {"mining.subscribe", "mining.authorize"}

TextChunks ==
    {<<Request(id, m), Newline>> : id \in Ids, m \in LineMethods}
        \cup {<<FirstHalf("1", m)>> : m \in LineMethods}
        \cup {<<SecondHalf("1", m), Newline>> : m \in LineMethods}
        \cup {<<PaddedRequest("1", m), Newline>> : m \in LineMethods}
        \cup {<<Junk, Newline, Request("1", m), Newline>> : m \in LineMethods}
        \cup {<<Junk, Newline>>, <<Scalar, Newline>>, <<JsonNull, Newline>>,
              <<ProxyHeader, Newline>>, <<ProxyHeader, Newline, Junk, Newline>>,
              <<Newline>>, <<Filler>>, <<Filler, Newline>>}

LinesInit ==
    /\ banning = [enabled |-> FALSE, checkThreshold |-> 2, invalidPercent |-> 50]
    /\ authorized = FALSE
    /\ extraNonce1 = ""
    /\ shares = [valid |-> 0, invalid |-> 0]
    /\ socket = "open"
    /\ dataBuffer = <<>>
    /\ proxy \in {"off", "first"}
    /\ received = [buffer |-> <<>>, d |-> <<>>]
    /\ overtaken = {}
    /\ pending = <<>>
    /\ op = <<>>
    /\ out = <<>>
    /\ emitted = <<>>

LinesNext ==
    \/ \E d \in TextChunks : OnData(d)
    \/ \E i \in 1..Len(pending), e \in {"null", "\"busy\""} :
          SubscriptionReply(i, e)
    \/ \E i \in 1..Len(pending), r \in AuthorizerResults : AuthorizeReply(i, r)

(***************************************************************************)
(* Claims about the stratum session.  op holds the handler runs of the     *)
(* last step, each with the session it found (pre) and left (post), and    *)
(* for a host callback what the host passed (arg: the result, err: the     *)
(* error).                                                                 *)
(***************************************************************************)
SubmitEmitted(evs) == \E i \in 1..Len(evs) : evs[i].e = "submit"

BanTriggered(evs) == \E i \in 1..Len(evs) : evs[i].e = "triggerBan"

\* C9: a mining.submit on a session that is not authorized is answered with
\* [24, "unauthorized worker", null], one on an authorized session without
\* extraNonce1 with [25, "not subscribed", null], and neither emits 'submit';
\* 'submit' is emitted only by a mining.submit on a session that is
\* authorized and subscribed at that moment.
C9_SubmitGated ==
    \A k \in 1..Len(op) :
        LET r == op[k]
        IN  /\ (r.h = "mining.submit" /\ ~r.pre.authorized) =>
                  /\ r.out = <<Reply(r.id, "null", UnauthorizedWorker)>>
                  /\ ~SubmitEmitted(r.emitted)
            /\ (r.h = "mining.submit" /\ r.pre.authorized
                    /\ r.pre.extraNonce1 = "") =>
                  /\ r.out = <<Reply(r.id, "null", NotSubscribed)>>
                  /\ ~SubmitEmitted(r.emitted)
            /\ SubmitEmitted(r.emitted) =>
                  /\ r.h = "mining.submit"
                  /\ r.pre.authorized /\ r.pre.extraNonce1 /= ""
                  /\ r.post.authorized /\ r.post.extraNonce1 /= ""

\* An authorized session that never subscribed has just been refused a share
C9_Witness ==
    /\ Len(op) = 1
    /\ op[1].h = "mining.submit"
    /\ authorized
    /\ extraNonce1 = ""
    /\ out = <<Reply(op[1].id, "null", NotSubscribed)>>
    /\ emitted = <<>>

\* A handler run that counts a share: a refused mining.submit counts an
\* invalid one, the host's acknowledgement counts what the host said
CountsShare(r) ==
    \/ r.h = "mining.submit"
           /\ (~r.pre.authorized \/ r.pre.extraNonce1 = "")
    \/ r.h = "submitCallback"

Counted(r) ==
    IF r.h = "submitCallback" /\ r.arg = "true"
    THEN [r.pre.shares EXCEPT !.valid = @ + 1]
    ELSE [r.pre.shares EXCEPT !.invalid = @ + 1]

\* C10: with banning enabled every share outcome is counted; at a share
\* where valid + invalid >= checkThreshold the counters are reset to zero if
\* invalid / total * 100 < invalidPercent, and otherwise the session emits
\* triggerBan and its socket is destroyed.
C10_BanAccounting ==
    \A k \in 1..Len(op) :
        (banning.enabled /\ CountsShare(op[k])) =>
            LET r == op[k]
                total == Counted(r).valid + Counted(r).invalid
            IN  IF total < banning.checkThreshold
                THEN r.post.shares = Counted(r)
                ELSE IF Counted(r).invalid * 100
                            < banning.invalidPercent * total
                THEN r.post.shares = [valid |-> 0, invalid |-> 0]
                ELSE /\ BanTriggered(r.emitted)
                     /\ r.post.socket = "destroyed"

\* What the code does at the banning share: the event, then a TypeError,
\* and the socket is left as it was
C10_BanThrows ==
    \A k \in 1..Len(op) :
        (banning.enabled /\ CountsShare(op[k])) =>
            LET r == op[k]
                total == Counted(r).valid + Counted(r).invalid
            IN  IF total < banning.checkThreshold
                THEN r.post.shares = Counted(r)
                ELSE IF Counted(r).invalid * 100
                            < banning.invalidPercent * total
                THEN r.post.shares = [valid |-> 0, invalid |-> 0]
                ELSE /\ BanTriggered(r.emitted)
                     /\ r.threw
                     /\ r.post.socket = r.pre.socket
                     /\ r.post.shares = Counted(r)

\* checkThreshold = 10, invalidPercent = 50: the tenth share of five valid
\* and five invalid ones has emitted triggerBan and the socket is still open
C10_BanLeavesSocketOpen ==
    /\ banning = [enabled |-> TRUE, checkThreshold |-> 10,
                  invalidPercent |-> 50]
    /\ shares = [valid |-> 5, invalid |-> 5]
    /\ BanTriggered(emitted)
    /\ socket = "open"

\* C11 as stated: whenever the handling of a mining.submit emits triggerBan
\* no reply to that submit is written; when it does not, the host's
\* acknowledgement (error, result) is written unchanged under the request's
\* id.
C11_AsStated ==
    \A k \in 1..Len(op) :
        LET r == op[k]
        IN  /\ (r.h \in {"mining.submit", "submitCallback"}
                    /\ BanTriggered(r.emitted)) => r.out = <<>>
            /\ (r.h = "submitCallback" /\ ~BanTriggered(r.emitted)) =>
                  r.out = <<Reply(r.id, r.arg, r.err)>>

\* C11 amended: whenever the host's acknowledgement of a mining.submit emits
\* triggerBan no reply to that submit is written, and when it does not the
\* acknowledgement is written unchanged under the request's id; a submit
\* refused as unauthorized or not subscribed has its error reply written
\* before the share is counted, also when that share emits triggerBan.
C11_Amended ==
    \A k \in 1..Len(op) :
        LET r == op[k]
        IN  /\ (r.h = "submitCallback" /\ BanTriggered(r.emitted)) =>
                  r.out = <<>>
            /\ (r.h = "submitCallback" /\ ~BanTriggered(r.emitted)) =>
                  r.out = <<Reply(r.id, r.arg, r.err)>>
            /\ (r.h = "mining.submit" /\ BanTriggered(r.emitted)) =>
                  /\ r.out = <<Reply(r.id, "null",
                                     IF r.pre.authorized THEN NotSubscribed
                                     ELSE UnauthorizedWorker)>>
                  /\ ~SubmitEmitted(r.emitted)

\* The host called a share invalid, that share emitted triggerBan, and
\* nothing was written
C11_Witness ==
    /\ Len(op) = 1
    /\ op[1].h = "submitCallback"
    /\ op[1].arg = "false"
    /\ BanTriggered(emitted)
    /\ out = <<>>

Callbacks == {"subscriptionCallback", "authorizeCallback", "submitCallback"}

\* C13: within one session replies are written in the order of their
\* requests: no reply is written for a request after the reply to a request
\* received later, however the authorizer and the host's handlers complete.
C13_RepliesInRequestOrder ==
    [][\A k \in 1..Len(op') :
          (op'[k].h \in Callbacks /\ op'[k].out /= <<>>)
              => op'[k].id \notin overtaken]_vars

\* mining.subscribe with id 1, then mining.authorize with id 2, on a new
\* session, neither answered yet
SubscribedThenAuthorizing ==
    /\ pending = <<[kind |-> "subscription", id |-> "1"],
                   [kind |-> "authorize", id |-> "2"]>>
    /\ ~authorized
    /\ extraNonce1 = ""

Granted(r) ==
    \/ r.h = "subscriptionCallback" /\ r.err = "null"
    \/ r.h = "authorizeCallback" /\ r.err = "null" /\ r.arg = "authorized"

\* C19: a session that sends mining.subscribe (id 1) and then
\* mining.authorize (id 2), both granted, receives two replies in that
\* order: the subscribe result (the two subscription tuples, extraNonce1,
\* extraNonce2Size, error null), then id 2 with result true and error null;
\* the socket is destroyed after an authorize reply only if the authorizer
\* set disconnect.
C19_SubscribeThenAuthorize ==
    [][(Len(op') = 1 /\ op'[1].h \in Callbacks) =>
          /\ (SubscribedThenAuthorizing /\ Granted(op'[1])) =>
                out' = <<Reply("1", SubscribeResult("a1", "4"), "null")>>
          /\ (pending = <<[kind |-> "authorize", id |-> "2"]>>
                  /\ Granted(op'[1])) =>
                out' = <<Reply("2", "true", "null")>>
          /\ (op'[1].h = "authorizeCallback" /\ socket = "open"
                  /\ socket' = "destroyed") =>
                op'[1].arg \in {"authorized,disconnect", "denied,disconnect"}]_vars

\* The last step was a 'data' event, which examined this text
DataEvent == received.d /= <<>>

Examined == received.buffer \o received.d

FloodTreated ==
    \E k \in 1..Len(op) :
        \E i \in 1..Len(op[k].emitted) : op[k].emitted[i].e = "socketFlooded"

\* C12: a session emits socketFlooded and destroys its socket exactly when
\* its receive buffer holds more than 10,240 bytes and no newline; then no
\* buffered byte is dispatched as a message; a buffer that contains a
\* newline-terminated message is never treated as a flood.
C12_FloodOnlyWithoutNewline ==
    DataEvent =>
        /\ FloodTreated <=>
               (ByteLength(Examined) > FloodLimit /\ ~HasNewline(Examined))
        /\ FloodTreated =>
               /\ socket = "destroyed"
               /\ dataBuffer = <<>>
               /\ \A k \in 1..Len(op) : op[k].h \in {"flood", "once"}

\* The flood that the code and the claim agree on is reachable
C12_FloodWithoutNewline ==
    /\ DataEvent
    /\ FloodTreated
    /\ ~HasNewline(Examined)
    /\ socket = "destroyed"

MalformedEmitted(r) ==
    \E i \in 1..Len(r.emitted) : r.emitted[i].e = "malformedMessage"

Silent(r) == r.emitted = <<>> /\ r.out = <<>> /\ r.post = r.pre

\* The handlings of lines that are no JSON object
NonObjectLines == {k \in 1..Len(op) : op[k].h = "undefined"}

\* C14 as stated: a line that is not valid JSON, or valid JSON but no
\* object, makes the session emit malformedMessage and destroy its socket,
\* except that when the data begins with "PROXY" and proxy mode is disabled
\* the line is dropped silently.
C14_AsStated ==
    \A k \in NonObjectLines :
        IF BeginsWithProxy(received.d) /\ proxy = "off"
        THEN Silent(op[k])
        ELSE MalformedEmitted(op[k]) /\ op[k].post.socket = "destroyed"

\* C14 amended: a line that is not valid JSON makes the session emit
\* malformedMessage and destroy its socket, except that when the data begins
\* with "PROXY" and proxy mode is enabled the line is dropped silently; a
\* line that is valid JSON but no object never counts as malformed: null is
\* dropped silently, any other value is handled as a message of no method.
C14_Amended ==
    \A k \in NonObjectLines :
        LET r == op[k]
        IN  /\ r.arg = "SyntaxError" =>
                IF BeginsWithProxy(received.d) /\ proxy /= "off"
                THEN Silent(r)
                ELSE /\ r.emitted = <<ClientEv("malformedMessage", "null", 0, 0)>>
                     /\ r.out = <<>>
                     /\ r.post.socket = "destroyed"
            /\ r.arg = "null" => Silent(r)
            /\ r.arg = "scalar" =>
                /\ r.emitted = <<ClientEv("unknownStratumMethod", "undefined", 0, 0)>>
                /\ r.out = <<>>
                /\ r.post = r.pre

C14_Witness ==
    /\ proxy = "on"
    /\ BeginsWithProxy(received.d)
    /\ Len(op) = 2
    /\ op[1].arg = "SyntaxError" /\ Silent(op[1])
    /\ op[2].arg = "SyntaxError" /\ Silent(op[2])
    /\ socket = "open"

NonEmptyLine(line) == line /= <<>>

\* The newline-terminated, non-empty lines of a text, in order
TerminatedLines(text) ==
    LET pieces == Split(text, <<>>)
    IN  SelectSeq(Take(pieces, Len(pieces) - 1), NonEmptyLine)

\* What follows the last newline of a text
TrailingFragment(text) ==
    LET pieces == Split(text, <<>>) IN pieces[Len(pieces)]

\* The handler runs of the last step that come from lines
LineRuns == SelectSeq(op, LAMBDA r : r.h /= "once")

\* C22: for any splitting of the byte stream into chunks within the flood
\* limit, each non-empty newline-terminated line is parsed and dispatched
\* exactly once, in the order received, and an unterminated trailing
\* fragment is kept and joined with the following chunk.
C22_LinesOnceInOrder ==
    (DataEvent /\ ByteLength(Examined) <= FloodLimit) =>
        /\ ~HasNewline(received.buffer)
        /\ Len(LineRuns) = Len(TerminatedLines(Examined))
        /\ \A k \in 1..Len(LineRuns) :
              LET json == JsonParse(TerminatedLines(Examined)[k])
              IN  /\ LineRuns[k].h = json.method
                  /\ LineRuns[k].id = json.id
                  /\ LineRuns[k].arg = json.class
        /\ dataBuffer = TrailingFragment(Examined)

\* C26: once a session has destroyed its own socket, no later message of
\* the session is dispatched: no handler is run for a remaining line of the
\* chunk, no submit event reaches the host and no reply is written.
C26_NothingAfterDestroy ==
    \A k \in 1..Len(op) :
        op[k].pre.socket = "destroyed" =>
            /\ op[k].h \in Callbacks
            /\ op[k].out = <<>>
            /\ \A j \in 1..Len(op[k].emitted) : op[k].emitted[j].e /= "submit"

(***************************************************************************)
(* StratumServer                                                           *)
(***************************************************************************)
MaxClients == 2
MaxTicks == 4

IPs == {"10.0.0.1", "10.0.0.2"}

Difficulties == {8}

Put(f, k, v) == [x \in DOMAIN f \cup {k} |-> IF x = k THEN v ELSE f[x]]

Remove(f, k) == [x \in DOMAIN f \ {k} |-> f[x]]

Empty == [x \in {} |-> 0]

\* util.packInt64LE(n), for n below 2^31
PackInt64LE(n) == PackUInt32LE(n) \o Zeros(4)

\* SubscriptionCounter.next(), for the incremented count
SubscriptionIdOf(count) == "deadbeefcafebabe" \o ToHex(PackInt64LE(count))

SessionEv(e, n) == [e |-> e, n |-> n]

SetDifficulty(d) == [method |-> "mining.set_difficulty", params |-> d]

Did(h, id, ip, timeLeft, events, threw) ==
    [h |-> h, id |-> id, ip |-> ip, timeLeft |-> timeLeft,
     emitted |-> events, threw |-> threw]

\* The constructor assigns no this.options, and init() reads
\* this.options.banning: a server exists only if the host has made options
\* reachable through the prototype; any other construction throws
Listening == options.inherited

\* this.bannedMS
BannedMS == options.banning.time * 1000

\* checkBan(client), called from the session's 'checkBan' event.  The
\* session has no socket field (its socket is options.socket), so
\* client.socket.destroy() throws
CheckBan(ip) ==
    IF options.banning.enabled /\ ip \in DOMAIN bannedIPs
    THEN LET timeLeft == BannedMS - (now - bannedIPs[ip])
         IN  IF timeLeft > 0
             THEN [bannedIPs |-> bannedIPs, timeLeft |-> <<timeLeft>>,
                   emitted |-> <<>>, threw |-> TRUE]
             ELSE [bannedIPs |-> Remove(bannedIPs, ip),
                   timeLeft |-> <<timeLeft>>,
                   emitted |-> <<SessionEv("forgaveBannedIP", 0)>>,
                   threw |-> FALSE]
    ELSE [bannedIPs |-> bannedIPs, timeLeft |-> <<>>, emitted |-> <<>>,
          threw |-> FALSE]

\* handleNewClient(socket) for a connection from ip, with proxy mode off:
\* init() emits 'checkBan' before setupSocket registers the 'data' and
\* 'close' listeners, which an exception in checkBan prevents
HandleNewClient(ip) ==
    /\ Listening
    /\ subscriptionCounter < MaxClients
    /\ LET subscriptionId == SubscriptionIdOf(subscriptionCounter + 1)
           ban == CheckBan(ip)
       IN  /\ subscriptionCounter' = subscriptionCounter + 1
           /\ stratumClients' =
                 Put(stratumClients, subscriptionId,
                     [remoteAddress |-> ip, socket |-> "open",
                      wired |-> ~ban.threw, pendingDifficulty |-> <<>>,
                      previousDifficulty |-> <<>>, difficulty |-> <<>>,
                      out |-> <<>>])
           /\ bannedIPs' = ban.bannedIPs
           /\ did' = Did("handleNewClient", subscriptionId, ip, ban.timeLeft,
                         <<SessionEv("client.connected", 0)>> \o ban.emitted,
                         ban.threw)
    /\ UNCHANGED <<options, now, nextPurge, bannedAt>>
    /\ UNCHANGED <<rebroadcastTimeout, broadcastAt>>
    /\ UNCHANGED <<tvars, pvars, ivars, cvars, hvars, bvars>>

\* removeStratumClientBySubId(subscriptionId)
RemoveStratumClientBySubId(table, subscriptionId) ==
    Remove(table, subscriptionId)

\* The server's 'socketDisconnect' listener on a session: an arrow function,
\* whose this is the server, which has no subscriptionId
OnSocketDisconnect(table) ==
    [stratumClients |-> RemoveStratumClientBySubId(table, "undefined"),
     emitted |-> <<SessionEv("client.disconnected", 0)>>]

\* The emitter on which the 'close' listener emits 'socketDisconnect': the
\* listener is a function(), so its this is the socket
CloseListenerThis == "socket"

\* The socket of a session closes
SocketClose(id) ==
    /\ Listening
    /\ id \in DOMAIN stratumClients
    /\ stratumClients[id].socket = "open"
    /\ LET closed == [stratumClients EXCEPT ![id].socket = "closed"]
           r == IF stratumClients[id].wired /\ CloseListenerThis = "session"
                THEN OnSocketDisconnect(closed)
                ELSE [stratumClients |-> closed, emitted |-> <<>>]
       IN  /\ stratumClients' = r.stratumClients
           /\ did' = Did("close", id, stratumClients[id].remoteAddress, <<>>,
                         r.emitted, FALSE)
    /\ UNCHANGED <<options, now, nextPurge, bannedIPs, subscriptionCounter,
                   bannedAt>>
    /\ UNCHANGED <<rebroadcastTimeout, broadcastAt>>
    /\ UNCHANGED <<tvars, pvars, ivars, cvars, hvars, bvars>>

\* addBannedIP(ipAddress)
AddBannedIP(ipAddress) == Put(bannedIPs, ipAddress, now)

\* A session's considerBan emits 'triggerBan'; the server's listener bans
\* the address; the session's this.socket.destroy() then throws
TriggerBan(id) ==
    /\ Listening
    /\ options.banning.enabled
    /\ id \in DOMAIN stratumClients
    /\ stratumClients[id].socket = "open"
    /\ stratumClients[id].wired
    /\ bannedIPs' = AddBannedIP(stratumClients[id].remoteAddress)
    /\ bannedAt' = Put(bannedAt, stratumClients[id].remoteAddress, now)
    /\ did' = Did("triggerBan", id, stratumClients[id].remoteAddress, <<>>,
                  <<SessionEv("triggerBan", 0)>>, TRUE)
    /\ UNCHANGED <<options, now, nextPurge, stratumClients,
                   subscriptionCounter>>
    /\ UNCHANGED <<rebroadcastTimeout, broadcastAt>>
    /\ UNCHANGED <<tvars, pvars, ivars, cvars, hvars, bvars>>

\* Half a second passes; the interval timer is not overrun
Tick ==
    /\ Listening
    /\ now < MaxTicks * 500
    /\ options.banning.enabled => now + 500 <= nextPurge
    /\ rebroadcastTimeout /= <<>> => now + 500 <= rebroadcastTimeout[1]
    /\ now' = now + 500
    /\ did' = Did("tick", "", "", <<>>, <<>>, FALSE)
    /\ UNCHANGED <<options, nextPurge, bannedIPs, stratumClients,
                   subscriptionCounter, bannedAt>>
    /\ UNCHANGED <<rebroadcastTimeout, broadcastAt>>
    /\ UNCHANGED <<tvars, pvars, ivars, cvars, hvars, bvars>>

\* The callback of setInterval in init()
Purge ==
    /\ Listening
    /\ options.banning.enabled
    /\ now = nextPurge
    /\ bannedIPs' =
          [ip \in {ip \in DOMAIN bannedIPs :
                      ~(now - bannedIPs[ip] > options.banning.time)}
              |-> bannedIPs[ip]]
    /\ nextPurge' = nextPurge + 1000 * options.banning.purgeInterval
    /\ did' = Did("purge", "", "", <<>>, <<>>, FALSE)
    /\ UNCHANGED <<options, now, stratumClients, subscriptionCounter,
                   bannedAt>>
    /\ UNCHANGED <<rebroadcastTimeout, broadcastAt>>
    /\ UNCHANGED <<tvars, pvars, ivars, cvars, hvars, bvars>>

\* enqueueNextDifficulty(requestedNewDifficulty) on a session
EnqueueNextDifficulty(id, requestedNewDifficulty) ==
    /\ Listening
    /\ id \in DOMAIN stratumClients
    /\ stratumClients' = [stratumClients EXCEPT
                             ![id].pendingDifficulty = <<requestedNewDifficulty>>]
    /\ did' = Did("enqueueNextDifficulty", id, "", <<>>, <<>>, FALSE)
    /\ UNCHANGED <<options, now, nextPurge, bannedIPs, subscriptionCounter,
                   bannedAt>>
    /\ UNCHANGED <<rebroadcastTimeout, broadcastAt>>
    /\ UNCHANGED <<tvars, pvars, ivars, cvars, hvars, bvars>>

\* sendDifficulty(difficulty) with the changes of a session that always
\* moves the current value and writes
SendDifficultyAlways(c, difficulty) ==
    [c |-> [c EXCEPT !.previousDifficulty = c.difficulty,
                     !.difficulty = <<difficulty>>,
                     !.out = Append(@, SetDifficulty(difficulty))],
     returned |-> TRUE]

\* sendDifficulty(difficulty) of the session c: the session after the call
\* and the value returned
SendDifficultyTo(c, difficulty) ==
    IF <<difficulty>> = c.difficulty
    THEN [c |-> c, returned |-> FALSE]
    ELSE [c |-> [c EXCEPT !.previousDifficulty = c.difficulty,
                          !.difficulty = <<difficulty>>,
                          !.out = Append(@, SetDifficulty(difficulty))],
          returned |-> TRUE]

\* sendDifficulty(difficulty) called on a session
SendDifficulty(id, difficulty) ==
    /\ Listening
    /\ id \in DOMAIN stratumClients
    /\ stratumClients[id].socket = "open"
    /\ LET call == SendDifficultyTo(stratumClients[id], difficulty)
       IN  /\ stratumClients' = [stratumClients EXCEPT ![id] = call.c]
           /\ did' = Did("sendDifficulty", id, "", <<>>, <<>>, FALSE)
                        @@ [arg |-> difficulty, returned |-> call.returned]
    /\ UNCHANGED <<options, now, nextPurge, bannedIPs, subscriptionCounter,
                   bannedAt>>
    /\ UNCHANGED <<rebroadcastTimeout, broadcastAt>>
    /\ UNCHANGED <<tvars, pvars, ivars, cvars, hvars, bvars>>

\* manuallySetValues(otherClient) of the session c
ManuallySetValues(c, otherClient) ==
    [c EXCEPT !.previousDifficulty = otherClient.previousDifficulty,
              !.difficulty = otherClient.difficulty]

\* manuallyAddStratumClient(clientObj) for a socket from ip: handleNewClient
\* and, when it returns, manuallySetValues on the new session
ManuallyAddStratumClient(ip, clientObj) ==
    /\ Listening
    /\ subscriptionCounter < MaxClients
    /\ LET subscriptionId == SubscriptionIdOf(subscriptionCounter + 1)
           ban == CheckBan(ip)
           session == [remoteAddress |-> ip, socket |-> "open",
                       wired |-> ~ban.threw, pendingDifficulty |-> <<>>,
                       previousDifficulty |-> <<>>, difficulty |-> <<>>,
                       out |-> <<>>]
       IN  /\ subscriptionCounter' = subscriptionCounter + 1
           /\ stratumClients' =
                 Put(stratumClients, subscriptionId,
                     IF ban.threw THEN session
                     ELSE ManuallySetValues(session, clientObj))
           /\ bannedIPs' = ban.bannedIPs
           /\ did' = Did("manuallyAddStratumClient", subscriptionId, ip,
                         ban.timeLeft,
                         <<SessionEv("client.connected", 0)>> \o ban.emitted,
                         ban.threw)
    /\ UNCHANGED <<options, now, nextPurge, bannedAt>>
    /\ UNCHANGED <<rebroadcastTimeout, broadcastAt>>
    /\ UNCHANGED <<tvars, pvars, ivars, cvars, hvars, bvars>>

\* broadcastMiningJobs(jobParams): a session has no sendMiningJob, so the
\* call on the first session of the table throws
BroadcastMiningJobs ==
    /\ Listening
    /\ rebroadcastTimeout' =
          IF DOMAIN stratumClients /= {} THEN rebroadcastTimeout
          ELSE <<now + 1000 * options.jobRebroadcastTimeout>>
    /\ broadcastAt' = <<now>>
    /\ did' = Did("broadcastMiningJobs", "", "", <<>>, <<>>,
                  DOMAIN stratumClients /= {})
    /\ UNCHANGED <<options, now, nextPurge, bannedIPs, stratumClients,
                   subscriptionCounter, bannedAt>>
    /\ UNCHANGED <<tvars, pvars, ivars, cvars, hvars, bvars>>

\* The callback of the setTimeout of broadcastMiningJobs
BroadcastTimeout ==
    /\ Listening
    /\ rebroadcastTimeout = <<now>>
    /\ rebroadcastTimeout' = <<>>
    /\ did' = Did("broadcastTimeout", "", "", <<>>,
                  <<SessionEv("broadcastTimeout", 0)>>, FALSE)
    /\ UNCHANGED <<options, now, nextPurge, bannedIPs, stratumClients,
                   subscriptionCounter, bannedAt, broadcastAt>>
    /\ UNCHANGED <<tvars, pvars, ivars, cvars, hvars, bvars>>

ServerOptions ==
    {[inherited |-> i,
      banning |-> [enabled |-> e, time |-> 1, purgeInterval |-> 2],
      jobRebroadcastTimeout |-> 1] :
        i \in BOOLEAN, e \in BOOLEAN}

ServerInit ==
    /\ options \in ServerOptions
    /\ now = 0
    /\ nextPurge = 1000 * options.banning.purgeInterval
    /\ bannedIPs = Empty
    /\ stratumClients = Empty
    /\ subscriptionCounter = 0
    /\ bannedAt = Empty
    /\ rebroadcastTimeout = <<>>
    /\ broadcastAt = <<>>
    /\ did = Did("constructor", "", "", <<>>, <<>>, ~options.inherited)

ServerNext ==
    \/ \E ip \in IPs : HandleNewClient(ip)
    \/ \E id \in DOMAIN stratumClients : SocketClose(id)
    \/ \E id \in DOMAIN stratumClients : TriggerBan(id)
    \/ Tick
    \/ Purge
    \/ \E id \in DOMAIN stratumClients, d \in Difficulties :
          EnqueueNextDifficulty(id, d)
    \/ \E id \in DOMAIN stratumClients, d \in Difficulties :
          SendDifficulty(id, d)
    \/ BroadcastMiningJobs
    \/ BroadcastTimeout

(***************************************************************************)
(* StratumServer: claims                                                   *)
(***************************************************************************)
\* C15: a session is in the client table from accept until its socket
\* closes: at the close the server removes its subscriptionId and emits
\* client.disconnected, so the table holds exactly the sessions whose
\* sockets are open.
C15_TableHoldsOpenSessions ==
    /\ \A id \in DOMAIN stratumClients : stratumClients[id].socket = "open"
    /\ did.h = "close" =>
          /\ did.id \notin DOMAIN stratumClients
          /\ SessionEv("client.disconnected", 0) \in Range(did.emitted)

\* C16: an address banned at time t stays in the ban table until
\* banning.time seconds have passed since t: the sweep removes only entries
\* older than that.
C16_BanLasts ==
    \A ip \in DOMAIN bannedAt :
        now - bannedAt[ip] < options.banning.time * 1000
            => ip \in DOMAIN bannedIPs

\* C17: with banning enabled, a new session whose address is in the ban
\* table at its ban check is destroyed, with kickedBannedIP and the whole
\* seconds left, if the ban has not run banning.time seconds; otherwise the
\* entry is removed, forgaveBannedIP is emitted and the session is left
\* open.  A triggerBan records the session's address in the ban table.
C17_BanCheck ==
    /\ (did.h = "handleNewClient" /\ options.banning.enabled
            /\ did.timeLeft /= <<>>) =>
          IF did.timeLeft[1] > 0
          THEN /\ stratumClients[did.id].socket = "destroyed"
               /\ SessionEv("kickedBannedIP", did.timeLeft[1] \div 1000)
                     \in Range(did.emitted)
          ELSE /\ did.ip \notin DOMAIN bannedIPs
               /\ SessionEv("forgaveBannedIP", 0) \in Range(did.emitted)
               /\ stratumClients[did.id].socket = "open"
    /\ did.h = "triggerBan" =>
          /\ did.ip \in DOMAIN bannedIPs
          /\ bannedIPs[did.ip] = now

\* C18: a difficulty staged by enqueueNextDifficulty is not sent when
\* staged; the next job sent to the session writes mining.set_difficulty
\* for it before mining.notify and clears the pending value.
C18_DifficultyFlushed ==
    [][/\ did'.h = "enqueueNextDifficulty" =>
             stratumClients'[did'.id].out = stratumClients[did'.id].out
       /\ did'.h = "broadcastMiningJobs" =>
             \A id \in DOMAIN stratumClients :
                 LET c == stratumClients[id]
                     d == stratumClients'[id]
                 IN  c.socket = "open" =>
                        /\ d.pendingDifficulty = <<>>
                        /\ Len(d.out) > Len(c.out)
                        /\ d.out[Len(d.out)].method = "mining.notify"
                        /\ c.pendingDifficulty \notin {<<>>, c.difficulty} =>
                              /\ Len(d.out) > Len(c.out) + 1
                              /\ d.out[Len(d.out) - 1] =
                                    SetDifficulty(c.pendingDifficulty[1])]_vars

\* C23: at most one rebroadcast timer is pending: each broadcastMiningJobs
\* call cancels the timer armed before and arms a new one, so
\* broadcastTimeout is emitted only after jobRebroadcastTimeout seconds
\* without a broadcast.
C23_TimerFollowsBroadcast ==
    /\ did.h = "broadcastMiningJobs" =>
          rebroadcastTimeout = <<now + 1000 * options.jobRebroadcastTimeout>>
    /\ did.h = "broadcastTimeout" =>
          /\ broadcastAt /= <<>>
          /\ now - broadcastAt[1] >= 1000 * options.jobRebroadcastTimeout
          /\ rebroadcastTimeout = <<>>

(***************************************************************************)
(* StratumClient.sendDifficulty                                            *)
(***************************************************************************)
MaxSent == 3

SentDifficulties == {8, 16}

\* The sessions a host hands to manuallyAddStratumClient
ClientObjs ==
    {[previousDifficulty |-> <<>>, difficulty |-> <<8>>],
     [previousDifficulty |-> <<8>>, difficulty |-> <<16>>]}

\* A server without banning, whose host accepts sessions, adds sessions by
\* hand and sets their difficulties
DifficultyInit ==
    /\ ServerInit
    /\ options.inherited
    /\ ~options.banning.enabled

DifficultyNext ==
    \/ \E ip \in IPs : HandleNewClient(ip)
    \/ \E ip \in IPs, clientObj \in ClientObjs :
          ManuallyAddStratumClient(ip, clientObj)
    \/ \E id \in DOMAIN stratumClients, d \in SentDifficulties :
          /\ Len(stratumClients[id].out) < MaxSent
          /\ SendDifficulty(id, d)

\* C24: sendDifficulty(d) on a session whose difficulty is d returns false,
\* writes nothing and changes no field; otherwise it moves the difficulty to
\* previousDifficulty, sets difficulty to d, writes exactly one
\* mining.set_difficulty with params [d] and returns true.  No two
\* consecutive mining.set_difficulty notifications of a session carry the
\* same value.
C24_SendDifficulty ==
    /\ [][did'.h = "sendDifficulty" /\ did'.id \in DOMAIN stratumClients =>
            LET c == stratumClients[did'.id]
                d == stratumClients'[did'.id]
            IN  IF c.difficulty = <<did'.arg>>
                THEN d = c /\ ~did'.returned
                ELSE /\ d.previousDifficulty = c.difficulty
                     /\ d.difficulty = <<did'.arg>>
                     /\ d.out = Append(c.out, SetDifficulty(did'.arg))
                     /\ did'.returned]_vars
    /\ [](\A id \in DOMAIN stratumClients :
            \A k \in 1..(Len(stratumClients[id].out) - 1) :
                stratumClients[id].out[k].params
                    /= stratumClients[id].out[k + 1].params)

\* A session has been sent two difficulties, and the last call found the
\* difficulty it was given already set
C24_Witness ==
    /\ did.h = "sendDifficulty"
    /\ ~did.returned
    /\ \E id \in DOMAIN stratumClients : Len(stratumClients[id].out) >= 2
    /\ \E id \in DOMAIN stratumClients :
          /\ stratumClients[id].out = <<>>
          /\ stratumClients[id].difficulty /= <<>>

(***************************************************************************)
(* BlockTemplate.serializeHeader                                           *)
(***************************************************************************)
HeaderSize == 80

UpperHexDigits ==
    <<"0", "1", "2", "3", "4", "5", "6", "7", "8", "9", "A", "B", "C", "D",
      "E", "F">>

\* The value of one hex digit, in either case
HexValue(ch) ==
    CHOOSE v \in 0..15 : HexDigits[v + 1] = ch \/ UpperHexDigits[v + 1] = ch

\* The bytes a hex string decodes to; the string is a list of its digits
RECURSIVE FromHex(_)
FromHex(hex) ==
    IF Len(hex) < 2 THEN <<>>
    ELSE <<16 * HexValue(hex[1]) + HexValue(hex[2])>> \o FromHex(Drop(hex, 2))

\* The hex string, as a list of digits, of these bytes
Digits(bytes) ==
    Flatten([i \in 1..Len(bytes) |->
                <<HexDigits[(bytes[i] \div 16) + 1],
                  HexDigits[(bytes[i] % 16) + 1]>>])

\* Bytes written into buf from offset position on
Write(buf, bytes, position) ==
    [i \in 1..Len(buf) |->
        IF i > position /\ i <= position + Len(bytes)
        THEN bytes[i - position] ELSE buf[i]]

\* header.write(hex, position, length, 'hex')
WriteHex(buf, hex, position, length) ==
    Write(buf, Take(FromHex(hex), length), position)

\* header.writeUInt32BE(value, position)
WriteUInt32BE(buf, value, position) ==
    Write(buf, <<(value \div 16777216) % 256, (value \div 65536) % 256,
                 (value \div 256) % 256, value % 256>>, position)

\* util.reverseBuffer(buf): full reversal
ReverseBuffer(buf) == [i \in 1..Len(buf) |-> buf[Len(buf) + 1 - i]]

\* (mutant) the fields are written in wire order and the buffer is returned
\* as written
SerializeHeaderForward(rpcData, merkleRoot, nTime, nonce, fill) ==
    WriteHex(WriteHex(WriteHex(WriteHex(WriteHex(
        WriteUInt32BE([i \in 1..HeaderSize |-> fill], rpcData.version, 0),
        rpcData.previousblockhash, 4, 32), merkleRoot, 36, 32),
        nTime, 68, 4), rpcData.bits, 72, 4), nonce, 76, 4)

\* serializeHeader(merkleRoot, nTime, nonce); new Buffer(80) comes filled
\* with whatever the allocator leaves in it
SerializeHeader(rpcData, merkleRoot, nTime, nonce, fill) ==
    LET h0 == [i \in 1..HeaderSize |-> fill]
        h1 == WriteHex(h0, nonce, 0, 4)
        h2 == WriteHex(h1, rpcData.bits, 4, 4)
        h3 == WriteHex(h2, nTime, 8, 4)
        h4 == WriteHex(h3, merkleRoot, 12, 32)
        h5 == WriteHex(h4, rpcData.previousblockhash, 44, 32)
        h6 == WriteUInt32BE(h5, rpcData.version, 76)
    IN  ReverseBuffer(h6)

\* 32-byte values: 00..01, 00..02, 01 02 .. 20, and ab repeated
Hashes ==
    {Digits(Zeros(31) \o <<1>>), Digits(Zeros(31) \o <<2>>),
     Digits([i \in 1..32 |-> i]), Digits([i \in 1..32 |-> 171])}

Words == {Digits(<<95, 0, 0, 0>>), Digits(<<29, 0, 255, 255>>),
          <<"0", "0", "0", "0", "0", "0", "0", "0">>,
          <<"D", "E", "A", "D", "b", "e", "e", "f">>}

Versions == {536870912, 2, 16909060}

HeaderInit ==
    /\ headerIn \in [version : Versions,
                     previousblockhash : {Digits(Zeros(31) \o <<1>>),
                                          Digits([i \in 1..32 |-> i])},
                     bits : {Digits(<<29, 0, 255, 255>>)},
                     merkleRoot : Hashes,
                     nTime : {Digits(<<95, 0, 0, 0>>),
                              <<"D", "E", "A", "D", "b", "e", "e", "f">>},
                     nonce : Words,
                     fill : {0, 255}]
    /\ headerOut = <<>>

Serialize ==
    /\ headerOut = <<>>
    /\ headerOut' = <<SerializeHeader(headerIn, headerIn.merkleRoot,
                                     headerIn.nTime, headerIn.nonce,
                                     headerIn.fill)>>
    /\ UNCHANGED headerIn
    /\ UNCHANGED <<tvars, pvars, ivars, cvars, svars, bvars>>

HeaderNext == Serialize

\* The length bytes of the header from offset on
Field(buf, offset, length) == SubSeq(buf, offset + 1, offset + length)

Reversed(bytes) == [i \in 1..Len(bytes) |-> bytes[Len(bytes) + 1 - i]]

\* The fields other than the Merkle root decode back to the inputs
OtherFieldsDecode(h) ==
    /\ Len(h) = 80
    /\ ReadUInt32LE(h, 0) = headerIn.version
    /\ Reversed(Field(h, 4, 32)) = FromHex(headerIn.previousblockhash)
    /\ Reversed(Field(h, 68, 4)) = FromHex(headerIn.nTime)
    /\ Reversed(Field(h, 72, 4)) = FromHex(headerIn.bits)
    /\ Reversed(Field(h, 76, 4)) = FromHex(headerIn.nonce)

\* C20 as stated: serializeHeader returns 80 bytes version || prevHash ||
\* merkleRoot || nTime || bits || nonce in which bytes 36..67 are exactly
\* the bytes of the merkleRoot argument and every other field decodes back
\* to its input.
C20_AsStated ==
    headerOut /= <<>> =>
        /\ OtherFieldsDecode(headerOut[1])
        /\ Field(headerOut[1], 36, 32) = FromHex(headerIn.merkleRoot)

\* C20 amended: serializeHeader returns 80 bytes version || prevHash ||
\* merkleRoot || nTime || bits || nonce in which bytes 36..67 are the bytes
\* of the merkleRoot argument in reverse order, and every other field
\* decodes back to its input.
C20_Amended ==
    headerOut /= <<>> =>
        /\ OtherFieldsDecode(headerOut[1])
        /\ Field(headerOut[1], 36, 32)
              = Reversed(FromHex(headerIn.merkleRoot))

C20_Witness ==
    /\ headerOut /= <<>>
    /\ headerIn.version = 536870912
    /\ headerIn.merkleRoot = Digits(Zeros(31) \o <<2>>)
    /\ Field(headerOut[1], 36, 32) = <<2>> \o Zeros(31)
    /\ Field(headerOut[1], 0, 4) = <<0, 0, 0, 32>>

(***************************************************************************)
(* BlockTemplate.serializeBlock                                            *)
(***************************************************************************)
\* util.varIntBuffer(n): Bitcoin CompactSize
VarIntBuffer(n) ==
    IF n < 253 THEN <<n>>
    ELSE IF n < 65536 THEN <<253, n % 256, n \div 256>>
    ELSE <<254>> \o PackUInt32LE(n)

\* Buffer.concat(list)
BufferConcat(list) == Flatten(list)

\* this.transactionData of the constructor
TransactionData(rpcData) ==
    BufferConcat([i \in 1..Len(rpcData.transactions) |->
                     FromHex(rpcData.transactions[i].data)])

\* serializeCoinbase(extraNonce1, extraNonce2)
SerializeCoinbase(t, en1, en2) ==
    BufferConcat(<<t.generationTransaction[1], en1, en2,
                   t.generationTransaction[2]>>)

\* getVoteData(); masternode_payments is "undefined", "false" or "true"
GetVoteData(t) ==
    IF t.rpcData.masternode_payments /= "true" THEN <<>>
    ELSE BufferConcat(<<VarIntBuffer(Len(t.rpcData.votes))>>
                          \o [i \in 1..Len(t.rpcData.votes) |->
                                 FromHex(t.rpcData.votes[i])])

\* (mutant) the transaction count leaves out the coinbase
SerializeBlockCountsListed(t, header, coinbase) ==
    BufferConcat(<<header, VarIntBuffer(Len(t.rpcData.transactions)),
                   coinbase, TransactionData(t.rpcData), GetVoteData(t),
                   IF t.reward = "POS" THEN <<0>> ELSE <<>> >>)

\* serializeBlock(header, coinbase)
SerializeBlock(t, header, coinbase) ==
    BufferConcat(<<header, VarIntBuffer(Len(t.rpcData.transactions) + 1),
                   coinbase, TransactionData(t.rpcData), GetVoteData(t),
                   IF t.reward = "POS" THEN <<0>> ELSE <<>> >>)

\* Transaction lists of 0, 1, 2 and 252 transactions
TransactionLists ==
    {<<>>,
     <<[data |-> Digits(<<1, 0, 0, 0, 171>>)]>>,
     <<[data |-> Digits(<<1, 0, 0, 0, 171>>)], [data |-> Digits(<<2, 205>>)]>>,
     [i \in 1..252 |-> [data |-> Digits(<<i>>)]]}

VoteLists == {<<>>, <<Digits(<<222, 173>>)>>,
              <<Digits(<<222, 173>>), Digits(<<190, 239, 1>>)>>}

BlockInit ==
    /\ blockIn \in
          [rpcData : [transactions : TransactionLists,
                      masternode_payments : {"undefined", "false", "true"},
                      votes : VoteLists],
           reward : {"POW", "POS"},
           generationTransaction : {<<<<1, 0, 0, 0, 1>>, <<255, 255, 0>>>>},
           header : {Zeros(80), [i \in 1..80 |-> i]},
           extraNonce1 : {<<161, 162, 163, 164>>},
           extraNonce2 : {<<0, 0, 0, 1>>, <<>>}]
    /\ blockOut = <<>>

SerializeBlockCall ==
    /\ blockOut = <<>>
    /\ blockOut' = <<SerializeBlock(blockIn, blockIn.header,
                        SerializeCoinbase(blockIn, blockIn.extraNonce1,
                                          blockIn.extraNonce2))>>
    /\ UNCHANGED blockIn
    /\ UNCHANGED <<tvars, pvars, ivars, cvars, svars, hvars>>

BlockNext == SerializeBlockCall

\* The bytes of a list of hex strings, one after the other
RECURSIVE BytesOfAll(_)
BytesOfAll(hexes) ==
    IF hexes = <<>> THEN <<>>
    ELSE IF Len(hexes) = 1 THEN FromHex(hexes[1])
    ELSE BytesOfAll(Take(hexes, Len(hexes) \div 2))
             \o BytesOfAll(Drop(hexes, Len(hexes) \div 2))

\* CompactSize of n, for the sizes that occur
CompactSize(n) ==
    IF n <= 252 THEN <<n>> ELSE <<253, n % 256, n \div 256>>

\* C21: serializeBlock(header, serializeCoinbase(e1, e2)) is header ||
\* varInt(number of transactions + 1) || prefix || e1 || e2 || suffix ||
\* transactionData || voteData || trailer; voteData is empty unless
\* masternode_payments is set (true), and is then varInt(number of votes)
\* and the votes; trailer is one zero byte exactly when reward is 'POS'.
C21_BlockLayout ==
    blockOut /= <<>> =>
        LET t == blockIn
            voteData == IF t.rpcData.masternode_payments = "true"
                        THEN CompactSize(Len(t.rpcData.votes))
                                 \o BytesOfAll(t.rpcData.votes)
                        ELSE <<>>
            trailer == IF t.reward = "POS" THEN <<0>> ELSE <<>>
        IN  blockOut[1] =
                t.header
                    \o CompactSize(Len(t.rpcData.transactions) + 1)
                    \o t.generationTransaction[1] \o t.extraNonce1
                    \o t.extraNonce2 \o t.generationTransaction[2]
                    \o BytesOfAll([i \in 1..Len(t.rpcData.transactions) |->
                                      t.rpcData.transactions[i].data])
                    \o voteData \o trailer

\* 252 listed transactions (count 253, three bytes), votes, POS
C21_Witness ==
    /\ blockOut /= <<>>
    /\ Len(blockIn.rpcData.transactions) = 252
    /\ blockIn.rpcData.masternode_payments = "true"
    /\ Len(blockIn.rpcData.votes) = 2
    /\ blockIn.reward = "POS"
    /\ SubSeq(blockOut[1], 81, 83) = <<253, 253, 0>>
    /\ blockOut[1][Len(blockOut[1])] = 0

(***************************************************************************)
(* Parked values of the subsystems a specification does not exercise       *)
(***************************************************************************)
(***************************************************************************)
(* BlockTemplate.getJobParams                                              *)
(***************************************************************************)
\* util.packUInt32BE(n), for n below 2^31
PackUInt32BE(n) ==
    <<(n \div 16777216) % 256, (n \div 65536) % 256, (n \div 256) % 256,
      n % 256>>

\* util.packInt32BE(n): two's complement, big-endian
PackInt32BE(n) ==
    IF n >= 0 THEN PackUInt32BE(n)
    ELSE LET m == (n + 2147483647) + 1
         IN  <<128 + (m \div 16777216), (m \div 65536) % 256,
               (m \div 256) % 256, m % 256>>

\* The array getJobParams builds, hex strings as lists of digits
JobParams(t) ==
    <<t.jobId,
      t.prevHashReversed,
      Digits(t.generationTransaction[1]),
      Digits(t.generationTransaction[2]),
      t.merkleBranch,
      Digits(PackInt32BE(t.rpcData.version)),
      t.rpcData.bits,
      Digits(PackUInt32BE(t.rpcData.curtime)),
      TRUE>>

\* (mutant) getJobParams without the cache test: the array is built at each
\* call from the fields and the number of shares registered
GetJobParamsCounting(t, cached, registered) ==
    LET built == [JobParams(t) EXCEPT ![1] = <<t.jobId, Len(registered)>>]
    IN  [jobParams |-> <<built>>, returned |-> built]

\* getJobParams() on the template with fields t, this.jobParams cached and
\* this.submits registered: the new this.jobParams and the array returned
GetJobParams(t, cached, registered) ==
    LET next == IF cached = <<>> THEN <<JobParams(t)>> ELSE cached
    IN  [jobParams |-> next, returned |-> next[1]]

GetJobParamsCall ==
    /\ Len(params) < MaxCalls
    /\ LET call == GetJobParams(template, jobParams, submits)
       IN  /\ jobParams' = call.jobParams
           /\ params' = Append(params, call.returned)
    /\ UNCHANGED <<submits, calls, template>>
    /\ UNCHANGED <<pvars, ivars, cvars, svars, hvars, bvars>>

\* What the constructor left in the fields getJobParams reads
Templates ==
    {[jobId |-> "1f",
      prevHashReversed |-> Digits([i \in 1..32 |-> i]),
      generationTransaction |-> g,
      merkleBranch |-> IF g[1] = <<>> THEN <<>>
                       ELSE <<Digits([i \in 1..32 |-> 171])>>,
      rpcData |-> [version |-> v, bits |-> Digits(<<29, 0, 255, 255>>),
                   curtime |-> c]] :
        g \in {<<<<>>, <<0, 172>>>>, <<<<1, 0, 255>>, <<16>>>>},
        v \in {536870912, 0 - 2},
        c \in {95, 1600000000}}

JobInit ==
    /\ submits = <<>>
    /\ calls = <<>>
    /\ template \in Templates
    /\ jobParams = <<>>
    /\ params = <<>>

JobNext ==
    \/ \E e1 \in ExtraNonce1s, e2 \in ExtraNonce2s, nTime \in NTimes,
          nonce \in Nonces : RegisterSubmit(e1, e2, nTime, nonce)
    \/ GetJobParamsCall

\* The 32-bit number of four big-endian bytes, two's complement
Int32BE(b) ==
    IF b[1] < 128
    THEN ((b[1] * 256 + b[2]) * 256 + b[3]) * 256 + b[4]
    ELSE 0 - ((((255 - b[1]) * 256 + (255 - b[2])) * 256 + (255 - b[3])) * 256
                 + (255 - b[4])) - 1

\* C25: for any interleaving of getJobParams and registerSubmit calls on one
\* template, every getJobParams call returns the same 9-element value as
\* the first call, [jobId, prevHashReversed, coinbase prefix hex, coinbase
\* suffix hex, merkleBranch, version, bits, curtime, true]; the cached value
\* never changes once computed, and registerSubmit changes nothing but
\* submits.
C25_JobParamsImmutable ==
    /\ [](\A i \in 1..Len(params) :
            /\ params[i] = params[1]
            /\ Len(params[i]) = 9
            /\ params[i][1] = template.jobId
            /\ params[i][2] = template.prevHashReversed
            /\ FromHex(params[i][3]) = template.generationTransaction[1]
            /\ FromHex(params[i][4]) = template.generationTransaction[2]
            /\ params[i][5] = template.merkleBranch
            /\ Int32BE(FromHex(params[i][6])) = template.rpcData.version
            /\ params[i][7] = template.rpcData.bits
            /\ Int32BE(FromHex(params[i][8])) = template.rpcData.curtime
            /\ params[i][9] = TRUE)
    /\ [][/\ jobParams /= <<>> => jobParams' = jobParams
          /\ calls' /= calls =>
                /\ jobParams' = jobParams
                /\ params' = params
                /\ template' = template]_vars

\* getJobParams was called before and after a share was registered
C25_Witness ==
    /\ Len(params) >= 2
    /\ submits /= <<>>
    /\ jobParams = <<params[Len(params)]>>
    /\ \E i \in 1..Len(calls) : calls[i].ret
    /\ template.rpcData.version < 0

TemplateIdle == TemplateInit

PeerIdle ==
    /\ client = "closed"
    /\ conn = 0
    /\ verack = FALSE
    /\ validConnectionConfig = TRUE
    /\ parser = Dead
    /\ wire = <<>>
    /\ scenario = <<>>
    /\ peerLog = <<>>
    /\ life = <<>>

InvIdle ==
    /\ invIn = [vectors |-> <<>>, wide |-> FALSE, cut |-> 0, payload |-> <<>>]
    /\ invOut = <<>>

ClientIdle ==
    /\ banning = [enabled |-> FALSE, checkThreshold |-> 0,
                  invalidPercent |-> 0]
    /\ authorized = FALSE
    /\ extraNonce1 = ""
    /\ shares = [valid |-> 0, invalid |-> 0]
    /\ socket = "destroyed"
    /\ dataBuffer = <<>>
    /\ proxy = "off"
    /\ received = [buffer |-> <<>>, d |-> <<>>]
    /\ overtaken = {}
    /\ pending = <<>>
    /\ op = <<>>
    /\ out = <<>>
    /\ emitted = <<>>

ServerIdle ==
    /\ options = [inherited |-> FALSE,
                  banning |-> [enabled |-> FALSE, time |-> 0,
                               purgeInterval |-> 0],
                  jobRebroadcastTimeout |-> 0]
    /\ now = 0
    /\ nextPurge = 0
    /\ bannedIPs = Empty
    /\ stratumClients = Empty
    /\ subscriptionCounter = 0
    /\ bannedAt = Empty
    /\ rebroadcastTimeout = <<>>
    /\ broadcastAt = <<>>
    /\ did = Did("", "", "", <<>>, <<>>, FALSE)

HeaderIdle ==
    /\ headerIn = [version |-> 0, previousblockhash |-> <<>>, bits |-> <<>>,
                   merkleRoot |-> <<>>, nTime |-> <<>>, nonce |-> <<>>,
                   fill |-> 0]
    /\ headerOut = <<>>

BlockIdle ==
    /\ blockIn = [rpcData |-> [transactions |-> <<>>,
                               masternode_payments |-> "undefined",
                               votes |-> <<>>],
                  reward |-> "POW", generationTransaction |-> <<<<>>, <<>>>>,
                  header |-> <<>>, extraNonce1 |-> <<>>, extraNonce2 |-> <<>>]
    /\ blockOut = <<>>

(***************************************************************************)
(* Specifications                                                          *)
(***************************************************************************)
InitTemplate ==
    TemplateInit /\ PeerIdle /\ InvIdle /\ ClientIdle /\ ServerIdle /\ HeaderIdle /\ BlockIdle

SpecTemplate == InitTemplate /\ [][TemplateNext]_vars

InitPeer ==
    TemplateIdle /\ PeerInit /\ InvIdle /\ ClientIdle /\ ServerIdle /\ HeaderIdle /\ BlockIdle

SpecParser == InitPeer /\ [][ParserNext]_vars

SpecPeer == InitPeer /\ [][PeerNext]_vars

InitInv ==
    TemplateIdle /\ PeerIdle /\ InvInit /\ ClientIdle /\ ServerIdle /\ HeaderIdle /\ BlockIdle

SpecInv == InitInv /\ [][InvNext]_vars

InitClient ==
    TemplateIdle /\ PeerIdle /\ InvIdle /\ ClientInit /\ ServerIdle /\ HeaderIdle /\ BlockIdle

SpecClient == InitClient /\ [][ClientNext]_vars

InitLines ==
    LinesInit /\ TemplateIdle /\ PeerIdle /\ InvIdle /\ ServerIdle /\ HeaderIdle /\ BlockIdle

SpecLines == InitLines /\ [][LinesNext]_vars

InitServer ==
    TemplateIdle /\ PeerIdle /\ InvIdle /\ ClientIdle /\ ServerInit
        /\ HeaderIdle /\ BlockIdle

SpecServer == InitServer /\ [][ServerNext]_vars

InitHeader ==
    TemplateIdle /\ PeerIdle /\ InvIdle /\ ClientIdle /\ ServerIdle
        /\ HeaderInit /\ BlockIdle

SpecHeader == InitHeader /\ [][HeaderNext]_vars

InitBlock ==
    TemplateIdle /\ PeerIdle /\ InvIdle /\ ClientIdle /\ ServerIdle
        /\ HeaderIdle /\ BlockInit

SpecBlock == InitBlock /\ [][BlockNext]_vars

InitDifficulty ==
    TemplateIdle /\ PeerIdle /\ InvIdle /\ ClientIdle /\ DifficultyInit
        /\ HeaderIdle /\ BlockIdle

SpecDifficulty == InitDifficulty /\ [][DifficultyNext]_vars

InitJob ==
    JobInit /\ PeerIdle /\ InvIdle /\ ClientIdle /\ ServerIdle
        /\ HeaderIdle /\ BlockIdle

SpecJob == InitJob /\ [][JobNext]_vars

=========================================================================
